---- MODULE Spec2Model ----
(***************************************************************************)
(* zono: a typed contract layer between an HTTP/socket server and its      *)
(* clients.  This module models ZonoHttpServer (the server dispatch        *)
(* engine and its start/stop lifecycle), ZonoEndpointClient (building a    *)
(* call, the fetch and axios strategies), the endpoint client suite,       *)
(* ZonoSocketServer and ZonoSocketClient, each under a specification of    *)
(* its own: Spec, SpecLifecycle, SpecClient, SpecTransport, SpecSuite,     *)
(* SpecSocketServer, SpecSocketClient.  Five further specifications look   *)
(* closer at one behaviour each: SpecSocketDispatch (the client's onAny    *)
(* handler across its await and its loop over the listeners),              *)
(* SpecSocketEcho (a socket server and a client exchanging messages),      *)
(* SpecConcurrent (two requests sent together), SpecConverters (a          *)
(* converter in front of a query schema) and SpecZonoServer (the earlier   *)
(* ZonoServer class and its covered routes).                               *)
(*                                                                         *)
(* Representation.  A string that the code takes apart (a path, a route)   *)
(* is a sequence of tokens: "/" and the segments between slashes.  A JSON  *)
(* object is a function from field names to values; a field that is        *)
(* present with the value undefined maps to Undefined.  An optional value  *)
(* (a schema that may be absent) is a set with no or one element.          *)
(***************************************************************************)
EXTENDS Integers, Sequences, FiniteSets, TLC

(***************************************************************************)
(* Bounds of the model.                                                    *)
(***************************************************************************)
\* request slots: the number of requests that can be in flight at once
MaxInFlight == 2
\* the number of stop() calls that can be awaiting the runtime at once
MaxPendingStops == 2
\* the longest middleware list a configuration has
MaxMiddleware == 2
\* the number of listeners start() binds in one run
MaxStarts == 3
\* the longest list a query key holds in a client call
MaxListLen == 2
\* the longest additionalPaths tuple of an endpoint the client is built for
MaxAdditionalPaths == 2
\* the number of messages a socket receives in one run
MaxInbound == 2
\* the number of listen() calls made on a socket client in one run
MaxListens == 2

(***************************************************************************)
(* JavaScript values.                                                      *)
(***************************************************************************)
Undefined == "undefined"

EmptyObject == [k \in {} |-> Undefined]

Has(opt) == opt # {}

The(opt) == CHOOSE x \in opt : TRUE

\* { ...a, ...b }: the keys of both, b's value where both have the key
Spread(a, b) ==
    [k \in (DOMAIN a) \cup (DOMAIN b) |-> IF k \in DOMAIN b THEN b[k] ELSE a[k]]

\* obj[key], undefined when the key is absent
Get(obj, key) == IF key \in DOMAIN obj THEN obj[key] ELSE Undefined

typedPick(obj, keys) == [k \in keys |-> Get(obj, k)]

\* JSON.stringify of an object: a field whose value is undefined is left out
JsonStringify(obj) ==
    [k \in {f \in DOMAIN obj : obj[f] # Undefined} |-> obj[k]]

\* Number(x) on the strings the model uses; a number n is written "#n"
Number(x) ==
    CASE x = "7" -> "#7"
      [] x = "1234" -> "#1234"
      [] OTHER -> "#NaN"

\* new Date(x) on the strings the model uses
Date(x) ==
    CASE x = "2020" -> "@2020"
      [] OTHER -> "@Invalid"

(***************************************************************************)
(* Strings as token sequences.                                             *)
(***************************************************************************)
\* s.split("/"): the segments between the slashes
RECURSIVE split(_)
split(s) ==
    IF s = << >> THEN << << >> >>
    ELSE LET rest == split(Tail(s))
         IN  IF Head(s) = "/"
             THEN << << >> >> \o rest
             ELSE << <<Head(s)>> \o Head(rest) >> \o Tail(rest)

\* a segment of split() as one token ("" for the empty segment)
SegmentToken(seg) == IF seg = << >> THEN "" ELSE seg[1]

\* s.split("/").slice(n), every segment as one token
SplitSlice(s, n) ==
    LET all == split(s)
    IN  [i \in 1..(IF Len(all) > n THEN Len(all) - n ELSE 0) |-> SegmentToken(all[i + n])]

IsPrefixAt(s, sub, i) ==
    /\ i + Len(sub) - 1 <= Len(s)
    /\ \A j \in 1..Len(sub) : s[i + j - 1] = sub[j]

\* s.replace(sub, ""): the first occurrence of sub removed
Replace(s, sub) ==
    LET hits == {i \in 1..(Len(s) + 1) : IsPrefixAt(s, sub, i)}
    IN  IF sub = << >> \/ hits = {} THEN s
        ELSE LET i == CHOOSE h \in hits : \A g \in hits : h <= g
             IN  SubSeq(s, 1, i - 1) \o SubSeq(s, i + Len(sub), Len(s))

(***************************************************************************)
(* The schema engine (zod), as far as the server uses it.                  *)
(* An object schema maps each required key to the values it accepts and    *)
(* strips unknown keys; a tuple schema is a sequence of accepted sets.     *)
(***************************************************************************)
ZodIssues == "issues"

safeParseObject(schema, input) ==
    IF \A k \in DOMAIN schema : k \in DOMAIN input /\ input[k] \in schema[k]
    THEN [success |-> TRUE, data |-> [k \in DOMAIN schema |-> input[k]], error |-> Undefined]
    ELSE [success |-> FALSE, data |-> << >>, error |-> ZodIssues]

safeParseTuple(schema, input) ==
    IF Len(input) = Len(schema) /\ \A i \in 1..Len(schema) : input[i] \in schema[i]
    THEN [success |-> TRUE, data |-> input, error |-> Undefined]
    ELSE [success |-> FALSE, data |-> << >>, error |-> ZodIssues]

(***************************************************************************)
(* Endpoint registries.                                                    *)
(***************************************************************************)
NoSchema == {}

Endpoint(method, path, additionalPaths, body, query, headers) ==
    [method |-> method, path |-> path, additionalPaths |-> additionalPaths,
     body |-> body, query |-> query, headers |-> headers]

zNames == <<{"Bob", "Jeremy"}>>
zBody == [firstName |-> {"Bob", "Jeremy"}]
zQuery == [date |-> {<<"@2020">>}]
zHeaders == [numerical |-> {"#7"}]
zMiddlewareHeaders == [authorization |-> {"#1234"}]

\* no collision: getPerson and postPerson share the route under two methods
RegistryPeople ==
    [order |-> <<"getPerson", "postPerson", "ping">>,
     defs |-> [getPerson |-> Endpoint("get", <<"/", "people">>, {zNames},
                                      NoSchema, NoSchema, NoSchema),
               postPerson |-> Endpoint("post", <<"/", "people">>, {zNames},
                                       {zBody}, {zQuery}, {zHeaders}),
               ping |-> Endpoint("get", <<"/", "ping">>, NoSchema,
                                 NoSchema, NoSchema, NoSchema)],
     basePath |-> {<<"/", "v1">>},
     converters |-> [postPerson |-> [query |-> "queryDate", headers |-> "headerNumber",
                                     additionalPaths |-> "pathName"]]]

\* two endpoints with the same method and the same path
RegistryDuplicate ==
    [order |-> <<"basicGet", "basicPost", "again">>,
     defs |-> [basicGet |-> Endpoint("get", <<"/", "people">>, NoSchema,
                                     NoSchema, NoSchema, NoSchema),
               basicPost |-> Endpoint("post", <<"/", "people">>, NoSchema,
                                      {zBody}, NoSchema, NoSchema),
               again |-> Endpoint("get", <<"/", "people">>, NoSchema,
                                  NoSchema, {zQuery}, NoSchema)],
     basePath |-> {},
     converters |-> EmptyObject]

\* two endpoints whose paths differ and whose derived routes are the same
RegistryDerived ==
    [order |-> <<"items", "item">>,
     defs |-> [items |-> Endpoint("get", <<"/", "items">>, {zNames},
                                  NoSchema, NoSchema, NoSchema),
               item |-> Endpoint("get", <<"/", "items", "/", ":0">>, NoSchema,
                                 NoSchema, NoSchema, NoSchema)],
     basePath |-> {},
     converters |-> EmptyObject]

Registries == {RegistryPeople, RegistryDuplicate, RegistryDerived}

\* the converters a configuration can name, applied to a raw wire value
ApplyConverter(name, raw) ==
    CASE name = "queryDate" ->
           \* { date: [new Date(data.date[0])] }: a TypeError when data.date is absent
           IF "date" \in DOMAIN raw
           THEN [threw |-> FALSE,
                 value |-> [date |-> <<Date(IF Len(raw["date"]) > 0
                                            THEN raw["date"][1] ELSE Undefined)>>]]
           ELSE [threw |-> TRUE, value |-> EmptyObject]
      [] name = "headerNumber" ->
           [threw |-> FALSE, value |-> [numerical |-> Number(Get(raw, "numerical"))]]
      [] name = "authNumber" ->
           [threw |-> FALSE, value |-> [authorization |-> Number(Get(raw, "authorization"))]]
      [] name = "pathName" ->
           [threw |-> FALSE,
            value |-> [i \in DOMAIN raw |-> IF raw[i] = "bob" THEN "Bob" ELSE raw[i]]]
      [] OTHER -> [threw |-> FALSE, value |-> raw]

(***************************************************************************)
(* Handler options.                                                        *)
(***************************************************************************)
\* the values of a ZonoEndpointHandlerOptions object: { obfuscate?: boolean }
HandlerOptionValues == {EmptyObject, [obfuscate |-> TRUE], [obfuscate |-> FALSE]}

\* the middleware lists a configuration can have: absent, or 1..MaxMiddleware entries
MiddlewareLists == {{}} \cup {{[i \in 1..n |-> "mw"]} : n \in 1..MaxMiddleware}

MiddlewareHeadersConfigs ==
    {{}, {[schema |-> zMiddlewareHeaders, converter |-> {"authNumber"}]}}

\* no endpoint client has been constructed
NoClient == [pc |-> "none"]

\* no call has been handed to a transport, no suite has been created and no
\* socket has been opened
NoTransport == [strategy |-> "none"]
NoSuite == [pc |-> "none"]
NoSocketServer == [pc |-> "none"]
NoSocketClient == [pc |-> "none"]
NoZonoServer == [pc |-> "none"]

(***************************************************************************)
(* State.                                                                  *)
(***************************************************************************)
VARIABLES
    endpoints,      \* this.endpoints: [order, defs], insertion ordered
    endpointPaths,  \* this.endpointPaths: endpoint name -> derived route
    conf,           \* this.conf: basePath, converters, middlewareHeaders
    opts,           \* this.opts: globalHandlerOpts, specificHandlerOpts, middleware
    server,         \* this._server: 0 for null, else the listener's handle
    listening,      \* the handles the runtime is accepting requests on
    apps,           \* handle -> the routes registered on the Hono app it serves
    pendingStops,   \* handle -> number of stop() calls awaiting handle.stop()
    started,        \* the number of listeners serve() has returned so far
    lastCall,       \* the last start()/stop() call: whether this._server was
                    \* set when it was made, and how it ended
    overlapped,     \* a start()/stop() call was made while a stop() was pending
    reqs,           \* request slot -> the request being dispatched in it
    console,        \* the lines written to the console
    maxConcurrent,  \* the number of requests the clients keep in flight at once
    client,         \* a ZonoEndpointClient and the call it is building
    transport,      \* the method called on the client, what it handed to fetch
                    \* or axios, the response and what the call returned
    suite,          \* createZonoEndpointClientSuite: its arguments and result
    socketServer,   \* a ZonoSocketServer: its handlers and inbound events
    socketClient,   \* a ZonoSocketClient: its listeners and inbound events
    zonoServer      \* a ZonoServer of classes/server.ts: its handle, its
                    \* covered paths and the listeners it has created

vars == <<endpoints, endpointPaths, conf, opts, server, listening, apps,
          pendingStops, started, lastCall, overlapped, reqs, console,
          maxConcurrent, client, transport, suite, socketServer, socketClient,
          zonoServer>>

\* what the server's own methods never write
configVars == <<endpoints, endpointPaths, conf, opts, maxConcurrent, client,
                transport, suite, socketServer, socketClient, zonoServer>>
lifecycleVars == <<server, listening, apps, pendingStops, started, lastCall, overlapped>>

Slots == 1..MaxInFlight
Handles == 1..MaxStarts

(***************************************************************************)
(* Route derivation.                                                       *)
(***************************************************************************)
Placeholder(i) ==
    CASE i = 0 -> ":0" [] i = 1 -> ":1" [] i = 2 -> ":2" [] OTHER -> ":n"

\* the loop of getPath: "/:0", "/:1", ... appended for i = 0 .. n-1
RECURSIVE Placeholders(_)
Placeholders(n) ==
    IF n = 0 THEN << >> ELSE Placeholders(n - 1) \o <<"/", Placeholder(n - 1)>>

\* a getPath whose placeholders count from 1
getPathCountingFromOne(basePath, endpoint) ==
    (IF Has(basePath) THEN The(basePath) ELSE << >>)
    \o endpoint.path
    \o (IF Has(endpoint.additionalPaths)
        THEN Tail(Tail(Placeholders(Len(The(endpoint.additionalPaths)) + 1)))
        ELSE << >>)

getPath(basePath, endpoint) ==
    (IF Has(basePath) THEN The(basePath) ELSE << >>)
    \o endpoint.path
    \o (IF Has(endpoint.additionalPaths)
        THEN Placeholders(Len(The(endpoint.additionalPaths)))
        ELSE << >>)

initPaths(eps, basePath) ==
    [name \in DOMAIN eps.defs |-> getPath(basePath, eps.defs[name])]

(***************************************************************************)
(* start() and stop().                                                     *)
(***************************************************************************)
\* a covered path that leaves the method out
CoveredPathOnly(method, path) == path

\* `${endpoint.method} ${endpointPath}`
CoveredPath(method, path) == <<method, " ">> \o path

\* the endpoint loop of start(): the routes registered on the app before the
\* loop ends, and whether it ended by throwing "is already covered"
RECURSIVE RegisterFrom(_, _, _, _, _)
RegisterFrom(eps, paths, i, seenCoveredPaths, routes) ==
    IF i > Len(eps.order) THEN [threw |-> FALSE, routes |-> routes]
    ELSE LET endpointName == eps.order[i]
             endpoint == eps.defs[endpointName]
             coveredPath == CoveredPath(endpoint.method, paths[endpointName])
         IN  IF coveredPath \in seenCoveredPaths
             THEN [threw |-> TRUE, routes |-> routes]
             ELSE RegisterFrom(eps, paths, i + 1,
                               seenCoveredPaths \cup {coveredPath},
                               Append(routes, [method |-> endpoint.method,
                                               path |-> paths[endpointName],
                                               name |-> endpointName]))

RegisterEndpoints(eps, paths) == RegisterFrom(eps, paths, 1, {}, << >>)

NoCall == [op |-> "none", running |-> FALSE, result |-> "none"]

Call(op, result) == [op |-> op, running |-> server # 0, result |-> result]

RECURSIVE PendingStopCount(_)
PendingStopCount(hs) ==
    IF hs = {} THEN 0
    ELSE LET h == CHOOSE x \in hs : TRUE
         IN  pendingStops[h] + PendingStopCount(hs \ {h})

StopIsPending == \E h \in Handles : pendingStops[h] > 0

\* serve() returns a new handle every time
FreshHandle == started + 1

\* serve() binds conf.port on conf.bind: it throws when a listener of this
\* server still holds the port
ServeThrows == listening # {}

\* start() without its first line
NeverAlreadyStarted == FALSE

\* if (this._server) throw new Error("Server already started")
AlreadyStarted == server # 0

Start ==
    /\ overlapped' = (overlapped \/ StopIsPending)
    /\ IF AlreadyStarted
       THEN /\ lastCall' = Call("start", "Server already started")
            /\ UNCHANGED <<server, listening, apps, pendingStops, started>>
       ELSE LET registered == RegisterEndpoints(endpoints, endpointPaths)
            IN  IF registered.threw
                THEN /\ lastCall' = Call("start", "is already covered")
                     /\ UNCHANGED <<server, listening, apps, pendingStops, started>>
                ELSE IF ServeThrows
                THEN /\ lastCall' = Call("start", "serve failed")
                     /\ UNCHANGED <<server, listening, apps, pendingStops, started>>
                ELSE /\ started < MaxStarts
                     /\ server' = FreshHandle
                     /\ started' = started + 1
                     /\ listening' = listening \cup {FreshHandle}
                     /\ apps' = [apps EXCEPT ![FreshHandle] = registered.routes]
                     /\ lastCall' = Call("start", "ok")
                     /\ UNCHANGED pendingStops
    /\ UNCHANGED <<configVars, reqs, console>>

\* stop() up to its await: if (!this._server) return; this._server.stop(...).
\* closeActiveConnections goes to the runtime and changes nothing here.
StopBegin ==
    /\ overlapped' = (overlapped \/ StopIsPending)
    /\ IF server = 0
       THEN /\ lastCall' = Call("stop", "returned")
            /\ UNCHANGED <<server, listening, apps, pendingStops, started>>
       ELSE /\ PendingStopCount(Handles) < MaxPendingStops
            /\ listening' = listening \ {server}
            /\ pendingStops' = [pendingStops EXCEPT ![server] = @ + 1]
            /\ lastCall' = Call("stop", "awaiting")
            /\ UNCHANGED <<server, apps, started>>
    /\ UNCHANGED <<configVars, reqs, console>>

\* a stop() that ends after its await and keeps the handle
StopCompleteKeepsHandle(h) ==
    /\ pendingStops[h] > 0
    /\ pendingStops' = [pendingStops EXCEPT ![h] = @ - 1]
    /\ lastCall' = [lastCall EXCEPT !.op = "stop", !.result = "stopped"]
    /\ UNCHANGED <<server, listening, apps, started, overlapped, configVars, reqs, console>>

\* stop() after its await: this._server = null
StopComplete(h) ==
    /\ pendingStops[h] > 0
    /\ pendingStops' = [pendingStops EXCEPT ![h] = @ - 1]
    /\ server' = 0
    /\ lastCall' = [lastCall EXCEPT !.op = "stop", !.result = "stopped"]
    /\ UNCHANGED <<listening, apps, started, overlapped, configVars, reqs, console>>

(***************************************************************************)
(* Responses.                                                              *)
(***************************************************************************)
\* ctx.json(body, status)
Json(body, status) == [status |-> status, body |-> JsonStringify(body)]

\* jsonResponseFail that sends the whole object instead of the picked fields
jsonResponseFailWhole(data) == Json(data.fields, data.status)

\* jsonResponseFail(ctx, data): data is [status, fields]
jsonResponseFail(data) ==
    Json(typedPick(data.fields, {"error", "zodError"}), data.status)

\* jsonResponseSuccess(ctx, data)
jsonResponseSuccess(data) == Json(data.data, data.status)

\* a catch block that sends the exception along
InternalServerErrorWithCause ==
    [status |-> 500, fields |-> [error |-> "Internal server error", zodError |-> "cause"]]

\* the catch block of the endpoint handler
InternalServerError == [status |-> 500, fields |-> [error |-> "Internal server error"]]

(***************************************************************************)
(* The parse helpers of the endpoint handler.  Each returns                *)
(* [threw, valid, data, response]; ran says whether the schema was run.    *)
(***************************************************************************)
Obfuscate(options) == "obfuscate" \in DOMAIN options /\ options["obfuscate"]

\* { ...this.opts.globalHandlerOpts, ...this.opts.specificHandlerOpts?.[endpointName] }
HandlerOptions(endpointName) ==
    Spread(opts.globalHandlerOpts,
           IF endpointName \in DOMAIN opts.specificHandlerOpts
           THEN opts.specificHandlerOpts[endpointName] ELSE EmptyObject)

Helper(threw, ran, valid, data, response) ==
    [threw |-> threw, ran |-> ran, valid |-> valid, data |-> data, response |-> response]

NotDeclared == Helper(FALSE, FALSE, TRUE, << >>, InternalServerError)
Threw == Helper(TRUE, FALSE, FALSE, << >>, InternalServerError)
Valid(data) == Helper(FALSE, TRUE, TRUE, data, InternalServerError)
Invalid(response) == Helper(FALSE, TRUE, FALSE, << >>, response)

\* this.conf.converters[endpointName] ?? {}
getConverters(endpointName) ==
    IF endpointName \in DOMAIN conf.converters
    THEN conf.converters[endpointName] ELSE EmptyObject

BasePath == IF Has(conf.basePath) THEN The(conf.basePath) ELSE << >>

parseAdditionalPath(endpointName, endpointOptions, ctx) ==
    LET endpoint == endpoints.defs[endpointName]
    IN  IF ~Has(endpoint.additionalPaths) THEN NotDeclared
        ELSE LET removeApiBase == IF Has(conf.basePath)
                                  THEN Replace(ctx.path, The(conf.basePath))
                                  ELSE ctx.path
                 removeEndpointBase == Replace(removeApiBase, endpoint.path)
                 parts == SplitSlice(removeEndpointBase, 1)
                 parsed == safeParseTuple(The(endpoint.additionalPaths), parts)
             IN  IF ~parsed.success
                 THEN Invalid([status |-> 400,
                               fields |-> [error |-> "Invalid path",
                                           zodError |-> IF Obfuscate(endpointOptions)
                                                        THEN Undefined ELSE parsed.error]])
                 ELSE Valid(parsed.data)

\* ctx.req.json(): throws on a payload that is not JSON
BodyJson(text) ==
    CASE text = "good" -> [threw |-> FALSE, value |-> [firstName |-> "Bob"]]
      [] text = "bad" -> [threw |-> FALSE, value |-> [firstName |-> "zz"]]
      [] OTHER -> [threw |-> TRUE, value |-> EmptyObject]

parseBody(endpointName, endpointOptions, ctx) ==
    LET endpoint == endpoints.defs[endpointName]
    IN  IF ~Has(endpoint.body) THEN NotDeclared
        ELSE LET body == BodyJson(ctx.body)
             IN  IF body.threw THEN Threw
                 ELSE LET parsed == safeParseObject(The(endpoint.body), body.value)
                      IN  IF ~parsed.success
                          THEN Invalid([status |-> 400,
                                        fields |-> Spread([error |-> "Invalid body"],
                                                          IF Obfuscate(endpointOptions)
                                                          THEN EmptyObject
                                                          ELSE [zodError |-> parsed.error])])
                          ELSE Valid(parsed.data)

\* parseQuery without its converter
parseQueryRaw(endpointName, endpointOptions, ctx) ==
    LET endpoint == endpoints.defs[endpointName]
    IN  IF ~Has(endpoint.query) THEN NotDeclared
        ELSE LET parsed == safeParseObject(The(endpoint.query), ctx.query)
             IN  IF ~parsed.success
                 THEN Invalid([status |-> 400,
                               fields |-> Spread([error |-> "Invalid query parameters"],
                                                 IF Obfuscate(endpointOptions)
                                                 THEN EmptyObject
                                                 ELSE [zodError |-> parsed.error])])
                 ELSE Valid(parsed.data)

parseQuery(endpointName, endpointOptions, ctx) ==
    LET endpoint == endpoints.defs[endpointName]
    IN  IF ~Has(endpoint.query) THEN NotDeclared
        ELSE LET raw == ctx.query
                 converters == getConverters(endpointName)
                 toParse == IF "query" \in DOMAIN converters
                            THEN ApplyConverter(converters["query"], raw)
                            ELSE [threw |-> FALSE, value |-> raw]
             IN  IF toParse.threw THEN Threw
                 ELSE LET parsed == safeParseObject(The(endpoint.query), toParse.value)
                      IN  IF ~parsed.success
                          THEN Invalid([status |-> 400,
                                        fields |-> Spread([error |-> "Invalid query parameters"],
                                                          IF Obfuscate(endpointOptions)
                                                          THEN EmptyObject
                                                          ELSE [zodError |-> parsed.error])])
                          ELSE Valid(parsed.data)

\* parseHeaders with the response of parseQuery left in after copying it
parseHeadersCopied(endpointName, endpointOptions, ctx) ==
    LET endpoint == endpoints.defs[endpointName]
    IN  IF ~Has(endpoint.headers) THEN NotDeclared
        ELSE LET raw == ctx.headers
                 converters == getConverters(endpointName)
                 toParse == IF "headers" \in DOMAIN converters
                            THEN ApplyConverter(converters["headers"], raw)
                            ELSE [threw |-> FALSE, value |-> raw]
             IN  IF toParse.threw THEN Threw
                 ELSE LET parsed == safeParseObject(The(endpoint.headers), toParse.value)
                      IN  IF ~parsed.success
                          THEN Invalid([status |-> 400,
                                        fields |-> [error |-> "Invalid query parameters"]])
                          ELSE Valid(parsed.data)

parseHeaders(endpointName, endpointOptions, ctx) ==
    LET endpoint == endpoints.defs[endpointName]
    IN  IF ~Has(endpoint.headers) THEN NotDeclared
        ELSE LET raw == ctx.headers
                 converters == getConverters(endpointName)
                 toParse == IF "headers" \in DOMAIN converters
                            THEN ApplyConverter(converters["headers"], raw)
                            ELSE [threw |-> FALSE, value |-> raw]
             IN  IF toParse.threw THEN Threw
                 ELSE LET parsed == safeParseObject(The(endpoint.headers), toParse.value)
                      IN  IF ~parsed.success
                          THEN Invalid([status |-> 400,
                                        fields |-> Spread([error |-> "Invalid headers"],
                                                          IF Obfuscate(endpointOptions)
                                                          THEN EmptyObject
                                                          ELSE [zodError |-> parsed.error])])
                          ELSE Valid(parsed.data)

\* the wrapper createMiddleware builds around one configured middleware, up to
\* its call of the middleware: the middleware headers parsed, or the 400
MiddlewareHeaders(ctx) ==
    IF ~Has(conf.middlewareHeaders) THEN NotDeclared
    ELSE LET middlewareHeadersConfig == The(conf.middlewareHeaders)
             rawHeaders == ctx.headers
             toParse == IF Has(middlewareHeadersConfig.converter)
                        THEN ApplyConverter(The(middlewareHeadersConfig.converter), rawHeaders)
                        ELSE [threw |-> FALSE, value |-> rawHeaders]
         IN  IF toParse.threw THEN Threw
             ELSE LET parsed == safeParseObject(middlewareHeadersConfig.schema, toParse.value)
                  IN  IF ~parsed.success
                      THEN Invalid([status |-> 400,
                                    fields |-> [error |-> "Invalid middleware headers",
                                                zodError |-> parsed.error]])
                      ELSE Valid(parsed.data)

(***************************************************************************)
(* Requests.                                                               *)
(***************************************************************************)
Channels == {"additionalPaths", "body", "query", "headers"}

NoInput == [c \in Channels |-> {}]

NoCtx == [path |-> << >>, body |-> "none", query |-> EmptyObject, headers |-> EmptyObject]

\* pc: idle, mw, path, body, query, headers, call, await, done
\* log: what ran for the request, in order.  input: what the handler was given.
\* result: what the handler returned.  at: the pc the response was made at.
IdleRequest ==
    [pc |-> "idle", name |-> "", ctx |-> NoCtx, mw |-> 0, log |-> << >>,
     input |-> NoInput, result |-> {}, at |-> "", resp |-> << >>]

InFlight(r) == r.pc \notin {"idle", "done"}

\* the wire values a client can send
Segments == {"Bob", "bob"}
BodyTexts == {"good", "bad", "notjson"}
Queries == {[date |-> <<"2020">>], [date |-> <<"zz">>]}
AuthorizationHeaders == {[authorization |-> "1234"], EmptyObject}
NumericalHeaders == {[numerical |-> "7"], [numerical |-> "x"]}

RECURSIVE JoinSegments(_)
JoinSegments(segs) ==
    IF segs = << >> THEN << >> ELSE <<"/", Head(segs)>> \o JoinSegments(Tail(segs))

\* the requests the router hands to the handler of endpointName: their path
\* matches the derived route, one segment for every placeholder; a client
\* sends the authorization header only to a server that declares it
RequestsFor(endpointName) ==
    LET endpoint == endpoints.defs[endpointName]
        n == IF Has(endpoint.additionalPaths) THEN Len(The(endpoint.additionalPaths)) ELSE 0
    IN  { [path |-> BasePath \o endpoint.path \o JoinSegments(segs),
           body |-> b, query |-> q, headers |-> Spread(a, h)] :
            segs \in [1..n -> Segments],
            b \in (IF Has(endpoint.body) THEN BodyTexts ELSE {"none"}),
            q \in (IF Has(endpoint.query) THEN Queries ELSE {EmptyObject}),
            a \in (IF Has(conf.middlewareHeaders)
                   THEN AuthorizationHeaders ELSE {EmptyObject}),
            h \in (IF Has(endpoint.headers) THEN NumericalHeaders ELSE {EmptyObject}) }

\* what a handler can return
HandlerResults ==
    { [success |-> TRUE, status |-> 201, data |-> [success |-> "true"], fields |-> EmptyObject],
      [success |-> FALSE, status |-> 404, data |-> EmptyObject,
       fields |-> [success |-> "false", status |-> "404", error |-> "Not found"]],
      [success |-> FALSE, status |-> 422, data |-> EmptyObject,
       fields |-> [success |-> "false", status |-> "422", error |-> "Unprocessable",
                   zodError |-> ZodIssues, hint |-> "stack"]] }

Middleware == IF Has(opts.middleware) THEN The(opts.middleware) ELSE << >>

FirstFreeSlot ==
    LET free == {s \in Slots : ~InFlight(reqs[s])}
    IN  CHOOSE s \in free : \A t \in free : s <= t

\* the runtime hands a request to the app of a listener, whose router matches
\* it to a registered route
Arrive ==
    /\ \E s \in Slots : ~InFlight(reqs[s])
    /\ Cardinality({s \in Slots : InFlight(reqs[s])}) < maxConcurrent
    /\ \E h \in listening : \E i \in 1..Len(apps[h]) :
         \E ctx \in RequestsFor(apps[h][i].name) :
            reqs' = [reqs EXCEPT ![FirstFreeSlot] =
                        [IdleRequest EXCEPT !.pc = IF Middleware = << >> THEN "path" ELSE "mw",
                                            !.name = apps[h][i].name,
                                            !.ctx = ctx,
                                            !.mw = 1]]
    /\ UNCHANGED <<configVars, lifecycleVars, console>>

Respond(r, response, entries) ==
    [r EXCEPT !.pc = "done", !.at = r.pc, !.resp = Append(@, response),
              !.log = @ \o entries]

\* console.debug(error) in the catch block
DebugLine == "debug: error"

\* one wrapped middleware: the middleware headers are parsed when configured,
\* then the middleware runs and either calls next() or answers itself
RunMiddleware(slot) ==
    LET r == reqs[slot]
        parsed == MiddlewareHeaders(r.ctx)
        ran == IF parsed.ran THEN <<"middlewareHeaders">> ELSE << >>
    IN  /\ r.pc = "mw"
        /\ IF parsed.threw
           THEN reqs' = [reqs EXCEPT ![slot] =
                            Respond(r, [status |-> 500, body |-> [text |-> "Internal Server Error"]],
                                    <<"onError">>)]
           ELSE IF ~parsed.valid
           THEN reqs' = [reqs EXCEPT ![slot] =
                            Respond(r, Json(parsed.response.fields, parsed.response.status), ran)]
           ELSE \E verdict \in {"next", "answer"} :
                  reqs' = [reqs EXCEPT ![slot] =
                    IF verdict = "answer"
                    THEN Respond(r, Json([error |-> "Unauthorized"], 401), ran \o <<"middleware">>)
                    ELSE [r EXCEPT !.log = @ \o ran \o <<"middleware">>,
                                   !.mw = @ + 1,
                                   !.pc = IF r.mw < Len(Middleware) THEN "mw" ELSE "path"]]
        /\ UNCHANGED <<configVars, lifecycleVars, console>>

\* ParseStep without the return that follows an invalid channel
ParseStepNoReturn(slot, stage, channel, parsed, next) ==
    LET r == reqs[slot]
        ran == IF parsed.ran THEN <<channel>> ELSE << >>
    IN  /\ r.pc = stage
        /\ reqs' = [reqs EXCEPT ![slot] =
                IF parsed.threw
                THEN Respond(r, jsonResponseFail(InternalServerError), <<"catch">>)
                ELSE [r EXCEPT !.pc = next, !.log = @ \o ran,
                               !.input[channel] = IF parsed.ran THEN {parsed.data} ELSE {}]]
        /\ console' = IF parsed.threw THEN console \cup {DebugLine} ELSE console
        /\ UNCHANGED <<configVars, lifecycleVars>>

\* one parse helper of the endpoint handler and the line that follows it
ParseStep(slot, stage, channel, parsed, next) ==
    LET r == reqs[slot]
        ran == IF parsed.ran THEN <<channel>> ELSE << >>
    IN  /\ r.pc = stage
        /\ reqs' = [reqs EXCEPT ![slot] =
                IF parsed.threw
                THEN Respond(r, jsonResponseFail(InternalServerError), <<"catch">>)
                ELSE IF ~parsed.valid
                THEN Respond(r, jsonResponseFail(parsed.response), ran)
                ELSE [r EXCEPT !.pc = next, !.log = @ \o ran,
                               !.input[channel] = IF parsed.ran THEN {parsed.data} ELSE {}]]
        /\ console' = IF parsed.threw THEN console \cup {DebugLine} ELSE console
        /\ UNCHANGED <<configVars, lifecycleVars>>

ParsePath(slot) ==
    ParseStep(slot, "path", "additionalPaths",
              parseAdditionalPath(reqs[slot].name, HandlerOptions(reqs[slot].name), reqs[slot].ctx),
              "body")

ParseBody(slot) ==
    ParseStep(slot, "body", "body",
              parseBody(reqs[slot].name, HandlerOptions(reqs[slot].name), reqs[slot].ctx),
              "query")

ParseQuery(slot) ==
    ParseStep(slot, "query", "query",
              parseQuery(reqs[slot].name, HandlerOptions(reqs[slot].name), reqs[slot].ctx),
              "headers")

ParseHeaders(slot) ==
    ParseStep(slot, "headers", "headers",
              parseHeaders(reqs[slot].name, HandlerOptions(reqs[slot].name), reqs[slot].ctx),
              "call")

\* const response = await fn({...}): the call
InvokeHandler(slot) ==
    /\ reqs[slot].pc = "call"
    /\ reqs' = [reqs EXCEPT ![slot].pc = "await", ![slot].log = Append(@, "handler")]
    /\ UNCHANGED <<configVars, lifecycleVars, console>>

\* the handler's promise resolves
HandlerReturns(slot) ==
    /\ reqs[slot].pc = "await"
    /\ \E response \in HandlerResults :
         reqs' = [reqs EXCEPT ![slot] =
                    Respond([reqs[slot] EXCEPT !.result = {response}],
                            IF ~response.success
                            THEN jsonResponseFail(response)
                            ELSE jsonResponseSuccess(response),
                            << >>)]
    /\ UNCHANGED <<configVars, lifecycleVars, console>>

\* an exception that fails every request in flight
HandlerThrowsFailsAll(slot) ==
    /\ reqs[slot].pc = "await"
    /\ reqs' = [s \in Slots |->
                    IF InFlight(reqs[s])
                    THEN Respond(reqs[s], jsonResponseFail(InternalServerError), <<"catch">>)
                    ELSE reqs[s]]
    /\ console' = console \cup {DebugLine}
    /\ UNCHANGED <<configVars, lifecycleVars>>

\* the handler throws, or its promise rejects
HandlerThrows(slot) ==
    /\ reqs[slot].pc = "await"
    /\ reqs' = [reqs EXCEPT ![slot] =
                    Respond(reqs[slot], jsonResponseFail(InternalServerError), <<"catch">>)]
    /\ console' = console \cup {DebugLine}
    /\ UNCHANGED <<configVars, lifecycleVars>>

(***************************************************************************)
(* Specification.                                                          *)
(***************************************************************************)
\* the server as constructed, for every configuration of the model
ConfiguredFrom(registries) ==
    \E registry \in registries :
      /\ endpoints = [order |-> registry.order, defs |-> registry.defs]
      /\ endpointPaths = initPaths(registry, registry.basePath)
      /\ \E mh \in MiddlewareHeadersConfigs :
           conf = [basePath |-> registry.basePath, converters |-> registry.converters,
                   middlewareHeaders |-> mh]
      /\ \E g \in HandlerOptionValues, s \in HandlerOptionValues, m \in MiddlewareLists :
           opts = [globalHandlerOpts |-> g,
                   specificHandlerOpts |->
                       IF s = EmptyObject THEN EmptyObject
                       ELSE [n \in {registry.order[2]} |-> s],
                   middleware |-> m]

Configured == ConfiguredFrom(Registries)

ConstructedFrom(registries) ==
    /\ ConfiguredFrom(registries)
    /\ server = 0
    /\ listening = {}
    /\ apps = [h \in Handles |-> << >>]
    /\ pendingStops = [h \in Handles |-> 0]
    /\ started = 0
    /\ console = {}
    /\ lastCall = NoCall
    /\ overlapped = FALSE
    /\ reqs = [s \in Slots |-> IdleRequest]
    /\ zonoServer = NoZonoServer

Constructed == ConstructedFrom(Registries)

Init ==
    /\ Constructed
    /\ maxConcurrent = 1
    /\ client = NoClient
    /\ transport = NoTransport
    /\ suite = NoSuite
    /\ socketServer = NoSocketServer
    /\ socketClient = NoSocketClient

\* the server serving requests
Next ==
    \/ Start
    \/ Arrive
    \/ \E slot \in Slots : RunMiddleware(slot)
    \/ \E slot \in Slots : ParsePath(slot)
    \/ \E slot \in Slots : ParseBody(slot)
    \/ \E slot \in Slots : ParseQuery(slot)
    \/ \E slot \in Slots : ParseHeaders(slot)
    \/ \E slot \in Slots : InvokeHandler(slot)
    \/ \E slot \in Slots : HandlerReturns(slot)
    \/ \E slot \in Slots : HandlerThrows(slot)

Spec == Init /\ [][Next]_vars

\* the server being started and stopped
NextLifecycle ==
    \/ Start
    \/ StopBegin
    \/ \E h \in Handles : StopComplete(h)

SpecLifecycle == Init /\ [][NextLifecycle]_vars

(***************************************************************************)
(* The endpoint handler as one function of the request and of what the     *)
(* handler does (outcome: what it returns, none when it throws): the       *)
(* response of a request that is dispatched alone.                         *)
(***************************************************************************)
createEndpointHandler(endpointName, ctx, outcome) ==
    LET options == HandlerOptions(endpointName)
        parsedPath == parseAdditionalPath(endpointName, options, ctx)
        parsedBody == parseBody(endpointName, options, ctx)
        parsedQuery == parseQuery(endpointName, options, ctx)
        parsedHeaders == parseHeaders(endpointName, options, ctx)
    IN  CASE parsedPath.threw -> jsonResponseFail(InternalServerError)
          [] ~parsedPath.valid -> jsonResponseFail(parsedPath.response)
          [] parsedBody.threw -> jsonResponseFail(InternalServerError)
          [] ~parsedBody.valid -> jsonResponseFail(parsedBody.response)
          [] parsedQuery.threw -> jsonResponseFail(InternalServerError)
          [] ~parsedQuery.valid -> jsonResponseFail(parsedQuery.response)
          [] parsedHeaders.threw -> jsonResponseFail(InternalServerError)
          [] ~parsedHeaders.valid -> jsonResponseFail(parsedHeaders.response)
          [] outcome = {} -> jsonResponseFail(InternalServerError)
          [] ~The(outcome).success -> jsonResponseFail(The(outcome))
          [] OTHER -> jsonResponseSuccess(The(outcome))

(***************************************************************************)
(* Vocabulary of the properties.                                           *)
(***************************************************************************)
Range(seq) == {seq[i] : i \in 1..Len(seq)}

IsPrefix(a, b) == Len(a) <= Len(b) /\ \A i \in 1..Len(a) : a[i] = b[i]

ChannelOrder == <<"additionalPaths", "body", "query", "headers">>

IsChannel(entry) == entry \in Channels

\* the channels an endpoint declares, in the order of the dispatch
DeclaredChannels(endpointName) ==
    LET endpoint == endpoints.defs[endpointName]
        IsDeclared(c) == Has(endpoint[c])
    IN  SelectSeq(ChannelOrder, IsDeclared)

\* the channels whose schema ran for the request, in the order they ran
ValidatedChannels(r) == SelectSeq(r.log, IsChannel)

\* the outcome of the schema of channel c on the request
ChannelParse(r, c) ==
    CASE c = "additionalPaths" -> parseAdditionalPath(r.name, HandlerOptions(r.name), r.ctx)
      [] c = "body" -> parseBody(r.name, HandlerOptions(r.name), r.ctx)
      [] c = "query" -> parseQuery(r.name, HandlerOptions(r.name), r.ctx)
      [] c = "headers" -> parseHeaders(r.name, HandlerOptions(r.name), r.ctx)

\* the schema of channel c ran on the request and rejected it
FailsValidation(r, c) ==
    c \in Range(r.log) /\ ChannelParse(r, c).ran /\ ~ChannelParse(r, c).valid

\* the error kinds, as the strings the server sends
ErrorKind(c) ==
    CASE c = "additionalPaths" -> "Invalid path"
      [] c = "body" -> "Invalid body"
      [] c = "query" -> "Invalid query parameters"
      [] c = "headers" -> "Invalid headers"

StageOf(c) ==
    CASE c = "additionalPaths" -> "path"
      [] c = "body" -> "body"
      [] c = "query" -> "query"
      [] c = "headers" -> "headers"

\* the request has entered the endpoint handler
Dispatched(r) == r.pc \notin {"idle", "mw"} /\ ~(r.pc = "done" /\ r.at = "mw")

HandlerInvoked(r) == "handler" \in Range(r.log)

(***************************************************************************)
(* C1.  For every request routed to an endpoint, the declared channels are *)
(* validated in the fixed order additional path, body, query, headers;     *)
(* the first channel that fails decides the response, no later channel is  *)
(* validated, and the endpoint handler is not invoked.                     *)
(***************************************************************************)
C1_ValidationOrder ==
    \A slot \in Slots :
        LET r == reqs[slot]
            validated == ValidatedChannels(r)
        IN  r.pc # "idle" =>
            /\ IsPrefix(validated, DeclaredChannels(r.name))
            /\ HandlerInvoked(r) => validated = DeclaredChannels(r.name)
            /\ \A i \in 1..Len(validated) :
                 FailsValidation(r, validated[i]) =>
                    /\ i = Len(validated)
                    /\ ~HandlerInvoked(r)
                    /\ r.pc = "done"
                    /\ Len(r.resp) = 1
                    /\ r.resp[1].status = 400
                    /\ r.resp[1].body["error"] = ErrorKind(validated[i])

\* a request whose path and body are both invalid was answered for its path
C1_Witness ==
    \E slot \in Slots :
        LET r == reqs[slot]
        IN  /\ r.pc = "done"
            /\ r.name = "postPerson"
            /\ ValidatedChannels(r) = <<"additionalPaths">>
            /\ FailsValidation(r, "additionalPaths")
            /\ r.ctx.body = "bad"
            /\ r.resp[1].body["error"] = "Invalid path"

(***************************************************************************)
(* C2.  A request whose declared channel fails schema validation receives  *)
(* HTTP 400 whose error field names that channel's error kind, and the     *)
(* endpoint handler is not invoked for it.                                 *)
(***************************************************************************)
C2_ValidationFailureIs400 ==
    \A slot \in Slots : \A c \in Channels :
        LET r == reqs[slot]
        IN  (r.pc = "done" /\ FailsValidation(r, c)) =>
            /\ r.at = StageOf(c)
            /\ r.resp[1].status = 400
            /\ "error" \in DOMAIN r.resp[1].body
            /\ r.resp[1].body["error"] = ErrorKind(c)
            /\ DOMAIN r.resp[1].body \subseteq {"error", "zodError"}
            /\ ~HandlerInvoked(r)
            /\ r.result = {}

\* a request with valid path, body and query and an invalid header
C2_Witness ==
    \E slot \in Slots :
        LET r == reqs[slot]
        IN  /\ r.pc = "done"
            /\ FailsValidation(r, "headers")
            /\ ValidatedChannels(r) = ChannelOrder
            /\ r.resp[1].status = 400
            /\ r.resp[1].body["error"] = "Invalid headers"

(***************************************************************************)
(* C3.  When an endpoint declares a body and the request payload cannot    *)
(* be parsed as JSON, the server responds 400 with the InvalidBody error   *)
(* kind, as for a body that parses and fails the body schema.              *)
(***************************************************************************)
C3_UnparseableBodyIsInvalidBody ==
    \A slot \in Slots :
        LET r == reqs[slot]
        IN  (/\ r.pc = "done"
             /\ r.at = "body"
             /\ Has(endpoints.defs[r.name].body)
             /\ BodyJson(r.ctx.body).threw) =>
            /\ r.resp[1].status = 400
            /\ r.resp[1].body["error"] = ErrorKind("body")

(***************************************************************************)
(* C4.  If the endpoint handler, or a stage before it, throws, the request *)
(* is answered with HTTP 500 and a generic error message without any       *)
(* diagnostic, the server stays running, and every later request gets the  *)
(* response it would get had the throwing request never occurred.          *)
(***************************************************************************)
GenericError == [status |-> 500, body |-> [error |-> "Internal server error"]]

C4_ThrowIs500AndIsolated ==
    /\ DebugLine \in console => (server # 0 /\ listening = {server})
    /\ \A slot \in Slots :
         LET r == reqs[slot]
         IN  /\ (r.pc = "done" /\ "catch" \in Range(r.log)) => r.resp = <<GenericError>>
             /\ (r.pc = "done" /\ Dispatched(r)) =>
                    r.resp = <<createEndpointHandler(r.name, r.ctx, r.result)>>

\* after a request that threw, a request is answered with its handler's result
C4_Witness ==
    /\ DebugLine \in console
    /\ \E slot \in Slots :
         LET r == reqs[slot]
         IN  /\ r.pc = "done"
             /\ HandlerInvoked(r)
             /\ r.result # {}
             /\ r.resp[1].status = 201

(***************************************************************************)
(* C5.  Every request dispatched to a registered endpoint yields exactly   *)
(* one JSON response, produced only after the handler (when reached) has   *)
(* completed: status 400 for a validation failure, 500 for an exception,   *)
(* otherwise the handler's status with its data as body (success) or with  *)
(* only its error and diagnostic fields as body (failure).                 *)
(***************************************************************************)
\* the error and zodError fields of a handler's failure result
ErrorFields(fields) == [k \in (DOMAIN fields) \cap {"error", "zodError"} |-> fields[k]]

C5_ExactlyOneResponse ==
    \A slot \in Slots :
        LET r == reqs[slot]
        IN  (r.pc # "idle" /\ Dispatched(r)) =>
            /\ Len(r.resp) = (IF r.pc = "done" THEN 1 ELSE 0)
            /\ r.pc = "done" =>
                 CASE "catch" \in Range(r.log) -> r.resp[1].status = 500
                   [] ~HandlerInvoked(r) ->
                        /\ r.resp[1].status = 400
                        /\ \E c \in Channels : FailsValidation(r, c)
                   [] r.result # {} /\ The(r.result).success ->
                        /\ r.resp[1].status = The(r.result).status
                        /\ r.resp[1].body = The(r.result).data
                   [] r.result # {} /\ ~The(r.result).success ->
                        /\ r.resp[1].status = The(r.result).status
                        /\ r.resp[1].body = ErrorFields(The(r.result).fields)
                   [] OTHER -> FALSE

\* a handler's failure result with more than error and zodError was answered
C5_Witness ==
    \E slot \in Slots :
        LET r == reqs[slot]
        IN  /\ r.pc = "done"
            /\ r.result # {}
            /\ "hint" \in DOMAIN The(r.result).fields
            /\ r.resp = <<[status |-> 422,
                           body |-> [error |-> "Unprocessable", zodError |-> ZodIssues]]>>

(***************************************************************************)
(* Vocabulary of the lifecycle properties.                                 *)
(***************************************************************************)
\* two endpoints of the registry have the same method and derived route
RouteCollision ==
    \E i, j \in 1..Len(endpoints.order) :
        /\ i < j
        /\ endpoints.defs[endpoints.order[i]].method = endpoints.defs[endpoints.order[j]].method
        /\ endpointPaths[endpoints.order[i]] = endpointPaths[endpoints.order[j]]

\* every endpoint of the registry has its route on the app of handle h
AllRegistered(h) ==
    /\ Len(apps[h]) = Len(endpoints.order)
    /\ \A i \in 1..Len(endpoints.order) :
         apps[h][i] = [method |-> endpoints.defs[endpoints.order[i]].method,
                       path |-> endpointPaths[endpoints.order[i]],
                       name |-> endpoints.order[i]]

LifecycleState == <<server, listening, apps, pendingStops, started>>

(***************************************************************************)
(* C6.  start() throws a route-collision error, binds no listener and      *)
(* leaves the server stopped whenever two endpoints of the registry have   *)
(* the same method and the same derived route; it throws no collision      *)
(* error when every (method, derived route) pair is distinct.              *)
(***************************************************************************)
C6_CollisionIsFatal ==
    /\ RouteCollision =>
          /\ server = 0
          /\ listening = {}
          /\ started = 0
          /\ lastCall.op = "start" => lastCall.result = "is already covered"
    /\ ~RouteCollision => lastCall.result # "is already covered"

\* start() has thrown for two endpoints whose paths differ and whose derived
\* routes are the same
C6_Witness ==
    /\ lastCall.op = "start"
    /\ lastCall.result = "is already covered"
    /\ endpoints.order = <<"items", "item">>
    /\ endpoints.defs["items"].path # endpoints.defs["item"].path
    /\ server = 0

(***************************************************************************)
(* C7.  Calling start() on a server that is already running throws an      *)
(* error and changes nothing: the running listener and the stored handle   *)
(* stay as they were and no second listener is bound.                      *)
(***************************************************************************)
C7_StartWhileRunningThrows ==
    [][(Start /\ server # 0) =>
          /\ lastCall'.result = "Server already started"
          /\ UNCHANGED LifecycleState]_vars

\* start() was called on a running server and threw
C7_Witness ==
    /\ lastCall.op = "start"
    /\ lastCall.running
    /\ lastCall.result = "Server already started"
    /\ server # 0
    /\ listening = {server}

(***************************************************************************)
(* C8.  The lifecycle is a two-state machine: after any sequence of        *)
(* completed start() and stop() calls, start() succeeds exactly when the   *)
(* server is stopped, stop() on a stopped server is a no-op, and start,    *)
(* stop, start leaves the server running with all endpoints registered.    *)
(***************************************************************************)
\* every call so far was made after the calls before it had completed
Sequential == ~overlapped

TwoStates ==
    /\ lastCall.op = "start" => (lastCall.result = "ok" <=> ~lastCall.running)
    /\ (lastCall.op = "start" /\ lastCall.result = "ok") =>
          (server # 0 /\ listening = {server} /\ AllRegistered(server))
    /\ (lastCall.op = "stop" /\ lastCall.result \in {"returned", "stopped"}) =>
          (server = 0 /\ listening = {})

ValidationFailure(r) ==
    /\ r.pc = "done"
    /\ r.resp[1].status = 400
    /\ \/ \E c \in Channels : FailsValidation(r, c)
       \/ r.at = "mw" /\ MiddlewareHeaders(r.ctx).ran /\ ~MiddlewareHeaders(r.ctx).valid

C9_ObfuscatedHasNoZodError ==
    \A slot \in Slots :
        LET r == reqs[slot]
        IN  (ValidationFailure(r) /\ Obfuscate(HandlerOptions(r.name))) =>
                "zodError" \notin DOMAIN r.resp[1].body

(***************************************************************************)
(* C10.  Validation diagnostics are suppressed for an endpoint whenever    *)
(* the server-wide obfuscate flag is set or that endpoint's own obfuscate  *)
(* flag is set; either flag is sufficient, whatever the other one is.      *)
(***************************************************************************)
GlobalFlag == Obfuscate(opts.globalHandlerOpts)

SpecificFlag(endpointName) ==
    /\ endpointName \in DOMAIN opts.specificHandlerOpts
    /\ Obfuscate(opts.specificHandlerOpts[endpointName])

C10_EitherFlagSuppresses ==
    \A slot \in Slots :
        LET r == reqs[slot]
        IN  (/\ r.pc = "done"
             /\ \E c \in Channels : FailsValidation(r, c)
             /\ GlobalFlag \/ SpecificFlag(r.name)) =>
                "zodError" \notin DOMAIN r.resp[1].body

(***************************************************************************)
(* Vocabulary of the middleware properties.                                *)
(***************************************************************************)
RECURSIVE Count(_, _)
Count(seq, x) ==
    IF seq = << >> THEN 0
    ELSE (IF Head(seq) = x THEN 1 ELSE 0) + Count(Tail(seq), x)

\* the request has left the middleware chain: it is in the endpoint handler,
\* or it has been answered
PastMiddleware(r) == r.pc \notin {"idle", "mw"}

\* the request carries no header the middleware header schema requires
OmitsMiddlewareHeader(r) ==
    /\ Has(conf.middlewareHeaders)
    /\ \E k \in DOMAIN The(conf.middlewareHeaders).schema : k \notin DOMAIN r.ctx.headers

(***************************************************************************)
(* C11.  A request that omits a header the middleware header schema        *)
(* requires is answered 400 with a header-validation error kind, and the   *)
(* endpoint handler is never invoked for it.                               *)
(***************************************************************************)
C11_OmittedMiddlewareHeaderIs400 ==
    \A slot \in Slots :
        LET r == reqs[slot]
        IN  (PastMiddleware(r) /\ OmitsMiddlewareHeader(r)) =>
                /\ r.pc = "done"
                /\ r.resp[1].status = 400
                /\ r.resp[1].body["error"] \in {"Invalid middleware headers", "Invalid headers"}
                /\ ~HandlerInvoked(r)

(***************************************************************************)
(* C12.  When a middleware header schema is configured it is validated     *)
(* exactly once for every request that gets past the middleware chain,     *)
(* for any number of configured middleware functions.                      *)
(***************************************************************************)
C12_MiddlewareHeadersValidatedOnce ==
    \A slot \in Slots :
        LET r == reqs[slot]
        IN  (PastMiddleware(r) /\ Has(conf.middlewareHeaders)) =>
                Count(r.log, "middlewareHeaders") = 1

(***************************************************************************)
(* C13.  When an additionalPaths converter is configured for an endpoint,  *)
(* the segments taken from the request path are validated after the        *)
(* converter has been applied to them: a request whose converted segments  *)
(* satisfy the additionalPaths schema is not answered "Invalid path".      *)
(***************************************************************************)
\* the segments of the request as parseAdditionalPath takes them from the path
PathParts(r) ==
    SplitSlice(Replace(Replace(r.ctx.path, BasePath), endpoints.defs[r.name].path), 1)

C13_PathConverterApplied ==
    \A slot \in Slots :
        LET r == reqs[slot]
            converters == getConverters(r.name)
        IN  (/\ r.pc \notin {"idle", "mw", "path"}
             /\ r.at # "mw"
             /\ Has(endpoints.defs[r.name].additionalPaths)
             /\ "additionalPaths" \in DOMAIN converters) =>
                LET converted == ApplyConverter(converters["additionalPaths"], PathParts(r))
                    parsed == safeParseTuple(The(endpoints.defs[r.name].additionalPaths),
                                             converted.value)
                IN  /\ (r.at = "path" /\ r.resp[1].status = 400) <=> ~parsed.success
                    /\ parsed.success => r.input["additionalPaths"] = {parsed.data}

(***************************************************************************)
(* ZonoEndpointClient: the values a call is built from.                    *)
(***************************************************************************)
\* a JSON value of a request body
JsNumber(v) == [t |-> "number", v |-> v]
JsString(v) == [t |-> "string", v |-> v]
JsBoolean(v) == [t |-> "boolean", v |-> v]
JsNull == [t |-> "null", v |-> "null"]

\* the truth value JavaScript gives a value in a condition
Truthy(x) ==
    ~ \/ x.t = "number" /\ x.v \in {"0", "NaN"}
      \/ x.t = "string" /\ x.v = ""
      \/ x.t = "boolean" /\ x.v = "false"
      \/ x.t = "null"

\* JSON.stringify of a body value, as text
StringifyBody(x) ==
    IF x.t = "string" THEN <<"\"", x.v, "\"">> ELSE <<x.v>>

\* the characters of a string, as far as a URL tells them apart
Text(str) ==
    CASE str = "a/b" -> <<"a", "/", "b">>
      [] str = "" -> << >>
      [] OTHER -> <<str>>

\* the sequences over S of length 0..n
Lists(S, n) == UNION {[1..k -> S] : k \in 0..n}

\* schema.parseAsync(input): resolves with the parsed value or rejects
parseAsyncObject(schema, input) ==
    LET parsed == safeParseObject(schema, input)
    IN  [threw |-> ~parsed.success, value |-> parsed.data]

parseAsyncTuple(schema, input) ==
    LET parsed == safeParseTuple(schema, input)
    IN  [threw |-> ~parsed.success, value |-> parsed.data]

\* a schema of JSON values is the set of the values it accepts
parseAsyncValue(schema, input) ==
    [threw |-> input \notin schema, value |-> input]

(***************************************************************************)
(* The endpoints the client is built for.                                  *)
(***************************************************************************)
\* z.string(): the strings of the model
Strings == {"Bob", "a", "b", "a/b"}

\* z.tuple([z.string(), ...]) of length n
zStrings(n) == [i \in 1..n |-> Strings]

\* the texts a query value can have
QueryTexts == {<<"x">>, <<"y", "&", "z", "=", " ">>}

\* a value of a query key, Partial<Record<string, Array<string>>>: a list of
\* strings, or undefined
QueryList(items) == [kind |-> "list", items |-> items]
QueryUndefined == [kind |-> "undefined", items |-> << >>]

QueryValues ==
    {QueryList(l) : l \in Lists(QueryTexts, MaxListLen)} \cup {QueryUndefined}

zTags == [tags |-> QueryValues]

zCount == {JsNumber("0"), JsNumber("7"), JsBoolean("false"), JsString("hi")}

zClientHeaders ==
    ("authorization" :> {"endpoint-token"}) @@ ("Content-Type" :> {"text/plain", Undefined})

zClientMiddlewareHeaders == [authorization |-> {"middleware-token"}]

RegistryClient ==
    [order |-> <<"things", "thing", "count">>,
     defs |-> [things |-> Endpoint("get", <<"/", "things">>, {zStrings(MaxAdditionalPaths)},
                                   NoSchema, {zTags}, NoSchema),
               thing |-> Endpoint("get", <<"/", "thing">>, {zStrings(1)},
                                  NoSchema, NoSchema, NoSchema),
               count |-> Endpoint("post", <<"/", "count">>, NoSchema,
                                  {zCount}, NoSchema, {zClientHeaders})],
     converters |-> EmptyObject]

BasePaths == {{}, {<<"/", "v1">>}}

ClientMiddlewareHeaders == {{}, {zClientMiddlewareHeaders}}

\* what a caller can pass for each part of a call
CallAdditionalPaths(endpoint) ==
    IF Has(endpoint.additionalPaths)
    THEN [1..Len(The(endpoint.additionalPaths)) -> Strings]
    ELSE {<< >>}

CallQueries(endpoint) ==
    IF Has(endpoint.query)
    THEN [tags : QueryValues] \cup {[tags |-> QueryList(<< <<"rejected">> >>)]}
    ELSE {EmptyObject}

CallBodies(endpoint) ==
    IF Has(endpoint.body) THEN zCount \cup {JsNull} ELSE {JsNull}

CallHeaders(endpoint) ==
    IF Has(endpoint.headers)
    THEN {("authorization" :> "endpoint-token") @@ ("Content-Type" :> ct) :
              ct \in {"text/plain", Undefined}} \cup {EmptyObject}
    ELSE {EmptyObject}

CallMiddlewareHeaders ==
    IF Has(client.opts.middlewareHeaders)
    THEN {[authorization |-> "middleware-token"], EmptyObject}
    ELSE {EmptyObject}

(***************************************************************************)
(* ZonoEndpointClient: building the URL, the body and the headers.         *)
(***************************************************************************)
NoUrl == [origin |-> "", pathname |-> << >>, searchParams |-> << >>]

NoCallOpts ==
    [additionalPaths |-> << >>, query |-> EmptyObject, body |-> JsNull,
     headers |-> EmptyObject, middlewareHeaders |-> EmptyObject]

\* the loop of parseCallOptsInputUrl: urlStr += `/${path}` for every parsed path
RECURSIVE AppendPaths(_)
AppendPaths(parsed) ==
    IF parsed = << >> THEN << >>
    ELSE <<"/">> \o Text(Head(parsed)) \o AppendPaths(Tail(parsed))

\* new URL(urlStr): the path ends where a query or a fragment begins
URL(urlStr) ==
    LET rest == Tail(urlStr)
        cuts == {i \in 1..Len(rest) : rest[i] \in {"?", "#"}}
        end == IF cuts = {} THEN Len(rest)
               ELSE (CHOOSE i \in cuts : \A j \in cuts : i <= j) - 1
    IN  [origin |-> Head(urlStr), pathname |-> SubSeq(rest, 1, end), searchParams |-> << >>]

\* if (!values): undefined is falsy, every list is truthy
QueryTruthy(values) == values.kind # "undefined"

\* for (let i = 0; i < values.length; i++) url.searchParams.append(key, values[i])
AppendValues(params, key, values) ==
    params \o [i \in 1..Len(values.items) |-> [key |-> key, value |-> values.items[i]]]

\* for (const key in parsed)
RECURSIVE AppendQuery(_, _, _)
AppendQuery(params, parsed, keys) ==
    IF keys = {} THEN params
    ELSE LET key == CHOOSE k \in keys : TRUE
             values == parsed[key]
         IN  AppendQuery(IF ~QueryTruthy(values) THEN params
                         ELSE AppendValues(params, key, values),
                         parsed, keys \ {key})

parseCallOptsInputUrl(callData) ==
    LET endpoint == endpoints.defs[client.name]
        urlStr == <<client.opts.baseUrl.origin>> \o client.opts.baseUrl.path \o endpoint.path
        paths == IF Has(endpoint.additionalPaths)
                 THEN parseAsyncTuple(The(endpoint.additionalPaths), callData.additionalPaths)
                 ELSE [threw |-> FALSE, value |-> << >>]
        url == URL(urlStr \o AppendPaths(paths.value))
        query == IF Has(endpoint.query)
                 THEN parseAsyncObject(The(endpoint.query), callData.query)
                 ELSE [threw |-> FALSE, value |-> EmptyObject]
    IN  IF paths.threw \/ query.threw THEN [threw |-> TRUE, value |-> NoUrl]
        ELSE [threw |-> FALSE,
              value |-> [url EXCEPT !.searchParams =
                            AppendQuery(<< >>, query.value, DOMAIN query.value)]]

\* a body that is handed on without its schema being asked
parseCallOptsInputBodyUnchecked(callOpts) ==
    [threw |-> FALSE,
     value |-> IF Has(endpoints.defs[client.name].body) THEN {callOpts.body} ELSE {}]

\* the parsed body, none for undefined
parseCallOptsInputBody(callOpts) ==
    LET endpoint == endpoints.defs[client.name]
    IN  IF ~Has(endpoint.body) THEN [threw |-> FALSE, value |-> {}]
        ELSE LET parsed == parseAsyncValue(The(endpoint.body), callOpts.body)
             IN  [threw |-> parsed.threw,
                  value |-> IF parsed.threw THEN {} ELSE {parsed.value}]

\* for (const key in parsed) { if (value === undefined) continue; result[key] = value }
AssignDefined(result, parsed) ==
    LET defined == {k \in DOMAIN parsed : parsed[k] # Undefined}
    IN  [k \in (DOMAIN result) \cup defined |->
            IF k \in defined THEN parsed[k] ELSE result[k]]

parseCallOptsInputHeaders(callOpts, parsedBody) ==
    LET endpoint == endpoints.defs[client.name]
        result == IF Has(parsedBody) /\ Truthy(The(parsedBody))
                  THEN "Content-Type" :> "application/json"
                  ELSE EmptyObject
        parsedHeaders == IF Has(endpoint.headers)
                         THEN parseAsyncObject(The(endpoint.headers), callOpts.headers)
                         ELSE [threw |-> FALSE, value |-> EmptyObject]
        parsedMiddlewareHeaders ==
            IF Has(client.opts.middlewareHeaders)
            THEN parseAsyncObject(The(client.opts.middlewareHeaders), callOpts.middlewareHeaders)
            ELSE [threw |-> FALSE, value |-> EmptyObject]
    IN  IF parsedHeaders.threw \/ parsedMiddlewareHeaders.threw
        THEN [threw |-> TRUE, value |-> EmptyObject]
        ELSE [threw |-> FALSE,
              value |-> AssignDefined(AssignDefined(result, parsedHeaders.value),
                                      parsedMiddlewareHeaders.value)]

\* the RequestInit of getFetchConfig
FetchConfig(callOptsOutput) ==
    [url |-> callOptsOutput.url,
     method |-> endpoints.defs[client.name].method,
     headers |-> callOptsOutput.headers,
     body |-> IF Has(callOptsOutput.body) /\ Truthy(The(callOptsOutput.body))
              THEN {StringifyBody(The(callOptsOutput.body))}
              ELSE {}]

(***************************************************************************)
(* The request on the wire and what the server reads from it.              *)
(***************************************************************************)
\* the serialisation of URLSearchParams: application/x-www-form-urlencoded
EncodeChar(c) ==
    CASE c = "&" -> "%26" [] c = "=" -> "%3D" [] c = " " -> "+" [] c = "+" -> "%2B"
      [] OTHER -> c

DecodeChar(c) ==
    CASE c = "%26" -> "&" [] c = "%3D" -> "=" [] c = "+" -> " " [] c = "%2B" -> "+"
      [] OTHER -> c

Encode(text) == [i \in 1..Len(text) |-> EncodeChar(text[i])]

Decode(text) == [i \in 1..Len(text) |-> DecodeChar(text[i])]

\* url.search without its question mark
RECURSIVE Search(_)
Search(params) ==
    IF params = << >> THEN << >>
    ELSE <<Head(params).key, "=">> \o Encode(Head(params).value)
         \o (IF Tail(params) = << >> THEN << >> ELSE <<"&">> \o Search(Tail(params)))

RECURSIVE SplitOn(_, _)
SplitOn(text, sep) ==
    IF text = << >> THEN << << >> >>
    ELSE LET rest == SplitOn(Tail(text), sep)
         IN  IF Head(text) = sep
             THEN << << >> >> \o rest
             ELSE << <<Head(text)>> \o Head(rest) >> \o Tail(rest)

\* the values of the pieces key=value that have this key, in order
RECURSIVE ValuesOf(_, _)
ValuesOf(pieces, key) ==
    IF pieces = << >> THEN << >>
    ELSE (IF Head(pieces)[1] = key
          THEN << Decode(SubSeq(Head(pieces), 3, Len(Head(pieces)))) >>
          ELSE << >>) \o ValuesOf(Tail(pieces), key)

\* ctx.req.queries(): every key of the query string with the list of its values
queries(search) ==
    LET pieces == IF search = << >> THEN << >> ELSE SplitOn(search, "&")
    IN  [key \in {pieces[i][1] : i \in 1..Len(pieces)} |-> ValuesOf(pieces, key)]

(***************************************************************************)
(* The client building one call: getFetchConfig and the awaits of          *)
(* parseCallOptsInput.  pc: idle, url, body, headers, config, done,        *)
(* rejected.                                                               *)
(***************************************************************************)
serverVars == <<endpoints, endpointPaths, conf, opts, maxConcurrent, lifecycleVars,
                reqs, console, zonoServer>>
socketVars == <<socketServer, socketClient>>

ClientCall ==
    /\ client.pc = "idle"
    /\ LET endpoint == endpoints.defs[client.name]
       IN  \E a \in CallAdditionalPaths(endpoint), q \in CallQueries(endpoint),
              b \in CallBodies(endpoint), h \in CallHeaders(endpoint),
              m \in CallMiddlewareHeaders :
             client' = [client EXCEPT !.pc = "url",
                           !.callOpts = [additionalPaths |-> a, query |-> q, body |-> b,
                                         headers |-> h, middlewareHeaders |-> m]]
    /\ UNCHANGED <<serverVars, transport, suite, socketVars>>

ParseCallOptsInputUrl ==
    /\ client.pc = "url"
    /\ LET url == parseCallOptsInputUrl(client.callOpts)
       IN  client' = IF url.threw THEN [client EXCEPT !.pc = "rejected"]
                     ELSE [client EXCEPT !.pc = "body", !.url = url.value]
    /\ UNCHANGED <<serverVars, transport, suite, socketVars>>

ParseCallOptsInputBody ==
    /\ client.pc = "body"
    /\ LET body == parseCallOptsInputBody(client.callOpts)
       IN  client' = IF body.threw THEN [client EXCEPT !.pc = "rejected"]
                     ELSE [client EXCEPT !.pc = "headers", !.body = body.value]
    /\ UNCHANGED <<serverVars, transport, suite, socketVars>>

ParseCallOptsInputHeaders ==
    /\ client.pc = "headers"
    /\ LET headers == parseCallOptsInputHeaders(client.callOpts, client.body)
       IN  client' = IF headers.threw THEN [client EXCEPT !.pc = "rejected"]
                     ELSE [client EXCEPT !.pc = "config", !.headers = headers.value]
    /\ UNCHANGED <<serverVars, transport, suite, socketVars>>

GetFetchConfig ==
    /\ client.pc = "config"
    /\ transport.strategy \in {"getFetchConfig", "fetch"}
    /\ client' = [client EXCEPT !.pc = "done",
                     !.fetchConfig = {FetchConfig([url |-> client.url, body |-> client.body,
                                                   headers |-> client.headers])}]
    /\ UNCHANGED <<serverVars, transport, suite, socketVars>>

\* nothing has been handed to a transport yet
NotSent(strategy) ==
    [strategy |-> strategy, sent |-> << >>, axiosConfig |-> {}, response |-> {},
     data |-> {}, result |-> {}]

\* a client and a server constructed from the same endpoints and base path,
\* and the method of the client that is about to be called
ClientConstructed(names, strategies) ==
    /\ \E basePath \in BasePaths, mh \in ClientMiddlewareHeaders,
          name \in names :
         /\ endpoints = [order |-> RegistryClient.order, defs |-> RegistryClient.defs]
         /\ endpointPaths = initPaths(RegistryClient, basePath)
         /\ conf = [basePath |-> basePath, converters |-> RegistryClient.converters,
                    middlewareHeaders |-> {[schema |-> h, converter |-> {}] : h \in mh}]
         /\ client = [pc |-> "idle", name |-> name,
                      opts |-> [baseUrl |-> [origin |-> "http://localhost:3000",
                                             path |-> IF Has(basePath) THEN The(basePath)
                                                      ELSE << >>],
                                middlewareHeaders |-> mh],
                      callOpts |-> NoCallOpts, url |-> NoUrl, body |-> {},
                      headers |-> EmptyObject, fetchConfig |-> {}]
    /\ opts = [globalHandlerOpts |-> EmptyObject, specificHandlerOpts |-> EmptyObject,
               middleware |-> {}]
    /\ server = 0
    /\ listening = {}
    /\ apps = [h \in Handles |-> << >>]
    /\ pendingStops = [h \in Handles |-> 0]
    /\ started = 0
    /\ console = {}
    /\ lastCall = NoCall
    /\ overlapped = FALSE
    /\ reqs = [s \in Slots |-> IdleRequest]
    /\ maxConcurrent = 1
    /\ \E strategy \in strategies : transport = NotSent(strategy)
    /\ zonoServer = NoZonoServer
    /\ suite = NoSuite
    /\ socketServer = NoSocketServer
    /\ socketClient = NoSocketClient

InitClient == ClientConstructed(DOMAIN RegistryClient.defs, {"getFetchConfig"})

NextClient ==
    \/ ClientCall
    \/ ParseCallOptsInputUrl
    \/ ParseCallOptsInputBody
    \/ ParseCallOptsInputHeaders
    \/ GetFetchConfig

SpecClient == InitClient /\ [][NextClient]_vars

(***************************************************************************)
(* Vocabulary of the client properties.                                    *)
(***************************************************************************)
\* the client has built the URL of the call
UrlBuilt == client.pc \in {"body", "headers", "config", "done"}

\* the client has built the headers of the call
HeadersBuilt == client.pc \in {"config", "done"}

ClientEndpoint == endpoints.defs[client.name]

\* what the server's handler is given for the request the client built
WireCtx == [NoCtx EXCEPT !.path = client.url.pathname]

\* the values of the parameters of the URL that have this key, in order
ParamsOf(key) ==
    LET under == SelectSeq(client.url.searchParams, LAMBDA p : p.key = key)
    IN  [i \in 1..Len(under) |-> under[i].value]

(***************************************************************************)
(* C14.  For every endpoint with additionalPaths of length N and every     *)
(* tuple of N valid values, the server's path extraction applied to the    *)
(* URL the client built yields exactly those N values, in order, and they  *)
(* pass the additionalPaths schema.                                        *)
(***************************************************************************)
C14_PathRoundTrip ==
    (UrlBuilt /\ Has(ClientEndpoint.additionalPaths)) =>
        LET parsed == parseAdditionalPath(client.name, EmptyObject, WireCtx)
        IN  /\ PathParts([name |-> client.name, ctx |-> WireCtx])
                  = client.callOpts.additionalPaths
            /\ parsed.valid
            /\ parsed.data = client.callOpts.additionalPaths

(***************************************************************************)
(* C15.  For every query key holding a list of K values, the server        *)
(* collects from the query string the client built a list of the same K    *)
(* values in the same order under the same key.                            *)
(***************************************************************************)
C15_QueryRoundTrip ==
    (UrlBuilt /\ Has(ClientEndpoint.query)) =>
        LET collected == queries(Search(client.url.searchParams))
        IN  \A key \in DOMAIN client.callOpts.query :
                client.callOpts.query[key].kind = "list" =>
                    /\ key \in DOMAIN collected
                    /\ collected[key] = client.callOpts.query[key].items

(***************************************************************************)
(* C16.  The route derived for an endpoint is the base path (once, empty   *)
(* when not configured), then the endpoint path, then one placeholder /:i  *)
(* for each i in 0..N-1, N the length of additionalPaths (0 when absent);  *)
(* deriving it again gives the same route.                                 *)
(***************************************************************************)
C16_RouteDerivation ==
    \A name \in DOMAIN endpoints.defs :
        LET endpoint == endpoints.defs[name]
            route == endpointPaths[name]
            prefix == BasePath \o endpoint.path
            n == IF Has(endpoint.additionalPaths)
                 THEN Len(The(endpoint.additionalPaths)) ELSE 0
        IN  /\ Len(route) = Len(prefix) + 2 * n
            /\ SubSeq(route, 1, Len(prefix)) = prefix
            /\ \A i \in 0..(n - 1) :
                  /\ route[Len(prefix) + 2 * i + 1] = "/"
                  /\ route[Len(prefix) + 2 * i + 2] = Placeholder(i)
            /\ getPath(conf.basePath, endpoint) = route

\* a server with a base path has derived the routes of an endpoint with two
\* additional paths, of one with a single one and of one with none
C16_Witness ==
    /\ endpointPaths["things"][1] = "/"
    /\ endpointPaths["things"][2] = "v1"
    /\ Len(The(endpoints.defs["things"].additionalPaths)) >= 2
    /\ SubSeq(endpointPaths["things"], 5, 8) = <<"/", ":0", "/", ":1">>
    /\ endpointPaths["thing"] = <<"/", "v1", "/", "thing", "/", ":0">>
    /\ endpointPaths["count"] = <<"/", "v1", "/", "count">>
    /\ client.pc = "done"

(***************************************************************************)
(* C17.  When the endpoint's header schema and the middleware header       *)
(* schema define the same key, the header map the client builds carries    *)
(* the endpoint-specific value for that key.                               *)
(***************************************************************************)
C17_EndpointHeaderWins ==
    (/\ HeadersBuilt
     /\ Has(ClientEndpoint.headers)
     /\ Has(client.opts.middlewareHeaders)) =>
        \A key \in (DOMAIN The(ClientEndpoint.headers))
                      \cap (DOMAIN The(client.opts.middlewareHeaders)) :
            client.callOpts.headers[key] # Undefined =>
                client.headers[key] = client.callOpts.headers[key]

(***************************************************************************)
(* C18.  Whenever the request the client builds carries a body, its header *)
(* map has Content-Type: application/json, whatever the caller and the     *)
(* header schemas supply.                                                  *)
(***************************************************************************)
C18_ContentTypeJson ==
    (client.pc = "done" /\ Has(The(client.fetchConfig).body)) =>
        /\ "Content-Type" \in DOMAIN The(client.fetchConfig).headers
        /\ The(client.fetchConfig).headers["Content-Type"] = "application/json"

(***************************************************************************)
(* C19.  For an endpoint that declares a body the request carries the JSON *)
(* encoding of the validated body, for every value the schema accepts;     *)
(* for an endpoint without a body the request carries none.                *)
(***************************************************************************)
C19_BodyIsJsonOfValidated ==
    client.pc = "done" =>
        IF Has(ClientEndpoint.body)
        THEN The(client.fetchConfig).body = {StringifyBody(client.callOpts.body)}
        ELSE The(client.fetchConfig).body = {}

(***************************************************************************)
(* C20.  In the query string the client builds, a key whose value is a     *)
(* list has one parameter per element, in list order, and a key whose      *)
(* value is not a list has exactly one parameter.                          *)
(***************************************************************************)
C20_OneParameterPerElement ==
    (UrlBuilt /\ Has(ClientEndpoint.query)) =>
        \A key \in DOMAIN client.callOpts.query :
            LET values == client.callOpts.query[key]
            IN  IF values.kind = "list"
                THEN ParamsOf(key) = values.items
                ELSE Len(ParamsOf(key)) = 1

(***************************************************************************)
(* ZonoEndpointClient: the transport call and the reading of the response. *)
(***************************************************************************)
\* the status codes and the body texts of the responses of the model
Statuses == {200, 204, 299, 300, 500}

ResponseTexts == {<<"7">>, <<"\"", "Bob", "\"">>, <<"<html>">>, << >>}

Responses == [status : Statuses, body : ResponseTexts]

\* endpoint.response: ZonoEndpointResponse, the JSON values it accepts;
\* z.string() accepts every string
zText == {JsString(str) : str \in Strings \cup {"<html>", ""}}

zTotal == {JsNumber("0"), JsNumber("7")}

RegistryClientResponse == [things |-> zText, thing |-> zText, count |-> zTotal]

\* schema.safeParseAsync(data) of a schema of JSON values
safeParseAsyncValue(schema, data) ==
    IF data \in schema
    THEN [success |-> TRUE, data |-> data, error |-> Undefined]
    ELSE [success |-> FALSE, data |-> Undefined, error |-> ZodIssues]

parseResponseData(data) ==
    safeParseAsyncValue(RegistryClientResponse[client.name], data)

\* response.json(): the value a JSON text stands for; rejects for any other text
json(text) ==
    CASE Len(text) = 3 /\ text[1] = "\"" /\ text[3] = "\"" ->
             [threw |-> FALSE, value |-> JsString(text[2])]
      [] Len(text) = 1 /\ text[1] \in {"0", "7"} ->
             [threw |-> FALSE, value |-> JsNumber(text[1])]
      [] Len(text) = 1 /\ text[1] \in {"true", "false"} ->
             [threw |-> FALSE, value |-> JsBoolean(text[1])]
      [] Len(text) = 1 /\ text[1] = "null" -> [threw |-> FALSE, value |-> JsNull]
      [] OTHER -> [threw |-> TRUE, value |-> JsNull]

\* response.ok
ok(response) == response.status >= 200 /\ response.status <= 299

\* the AxiosResponse of a response: axios decodes a JSON body and leaves any
\* other body as the string it is
AxiosResponse(response) ==
    LET decoded == json(response.body)
    IN  [status |-> response.status,
         data |-> IF ~decoded.threw THEN decoded.value
                  ELSE JsString(IF response.body = << >> THEN ""
                                ELSE response.body[1])]

\* what a call made of an answer: it threw, or it returned value; data is
\* what it handed to the response schema, if it did
Returned(value, data) == [threw |-> FALSE, value |-> value, data |-> data]
Rejected == [threw |-> TRUE, value |-> EmptyObject, data |-> {}]

parseFetchResponse(response) ==
    LET data == json(response.body)
    IN  IF data.threw THEN Rejected
        ELSE LET parsed == parseResponseData(data.value)
             IN  IF ~parsed.success
                 THEN Returned([success |-> FALSE, zodError |-> parsed.error,
                                response |-> response], {data.value})
                 ELSE Returned([success |-> TRUE, data |-> parsed.data,
                                response |-> response], {data.value})

\* an axios answer that drops the error of the schema
parseAxiosResponseWithoutError(response) ==
    Returned([success |-> FALSE, response |-> response], {response.data})

parseAxiosResponse(response) ==
    LET parsed == parseResponseData(response.data)
    IN  IF ~parsed.success
        THEN Returned([success |-> FALSE, response |-> response,
                       zodError |-> parsed.error], {response.data})
        ELSE Returned([success |-> TRUE, response |-> response,
                       data |-> parsed.data], {response.data})

\* fetch(callData), from the answer of the transport on
fetchResponded(response) ==
    IF ~ok(response) THEN Returned([success |-> FALSE, response |-> response], {})
    ELSE parseFetchResponse(response)

\* axios(callData), from the answer of the transport on
axiosResponded(response) ==
    IF response.status < 200 \/ response.status >= 300
    THEN Returned([success |-> FALSE, response |-> response], {})
    ELSE parseAxiosResponse(response)

\* the AxiosRequestConfig of getAxiosConfig
AxiosConfig(callOptsOutput) ==
    [url |-> callOptsOutput.url,
     method |-> endpoints.defs[client.name].method,
     data |-> callOptsOutput.body,
     headers |-> callOptsOutput.headers,
     validateStatus |-> TRUE]

(***************************************************************************)
(* The client making one call: fetch, axios, getFetchConfig or             *)
(* getAxiosConfig.  pc after done: waiting, returned, threw.               *)
(***************************************************************************)
clientFrame == <<serverVars, suite, socketVars>>

GetAxiosConfig ==
    /\ client.pc = "config"
    /\ transport.strategy \in {"getAxiosConfig", "axios"}
    /\ client' = [client EXCEPT !.pc = "done"]
    /\ transport' = [transport EXCEPT !.axiosConfig =
                        {AxiosConfig([url |-> client.url, body |-> client.body,
                                      headers |-> client.headers])}]
    /\ UNCHANGED clientFrame

\* const response = await fetch(...fetchConfig)
Fetch ==
    /\ client.pc = "done"
    /\ transport.strategy = "fetch"
    /\ client' = [client EXCEPT !.pc = "waiting"]
    /\ transport' = [transport EXCEPT !.sent = Append(@, The(client.fetchConfig))]
    /\ UNCHANGED clientFrame

\* const response = await axios(config)
Axios ==
    /\ client.pc = "done"
    /\ transport.strategy = "axios"
    /\ client' = [client EXCEPT !.pc = "waiting"]
    /\ transport' = [transport EXCEPT !.sent = Append(@, The(transport.axiosConfig))]
    /\ UNCHANGED clientFrame

Answer(response, outcome) ==
    /\ client' = [client EXCEPT !.pc = IF outcome.threw THEN "threw" ELSE "returned"]
    /\ transport' = [transport EXCEPT !.response = {response},
                                      !.data = outcome.data,
                                      !.result = IF outcome.threw THEN {}
                                                 ELSE {outcome.value}]
    /\ UNCHANGED clientFrame

FetchResponds ==
    /\ client.pc = "waiting"
    /\ transport.strategy = "fetch"
    /\ \E response \in Responses : Answer(response, fetchResponded(response))

AxiosResponds ==
    /\ client.pc = "waiting"
    /\ transport.strategy = "axios"
    /\ \E response \in Responses :
         Answer(AxiosResponse(response), axiosResponded(AxiosResponse(response)))

Strategies == {"getFetchConfig", "getAxiosConfig", "fetch", "axios"}

InitTransport == ClientConstructed(DOMAIN RegistryClient.defs, Strategies)

NextTransport ==
    \/ ClientCall
    \/ ParseCallOptsInputUrl
    \/ ParseCallOptsInputBody
    \/ ParseCallOptsInputHeaders
    \/ GetFetchConfig
    \/ GetAxiosConfig
    \/ Fetch
    \/ Axios
    \/ FetchResponds
    \/ AxiosResponds

SpecTransport == InitTransport /\ [][NextTransport]_vars

(***************************************************************************)
(* Vocabulary of the transport properties.                                 *)
(***************************************************************************)
\* the caller's values pass the schemas the endpoint and the client declare
CallInputValid ==
    LET endpoint == endpoints.defs[client.name]
        callOpts == client.callOpts
    IN  /\ Has(endpoint.additionalPaths) =>
               /\ Len(callOpts.additionalPaths) = Len(The(endpoint.additionalPaths))
               /\ \A i \in 1..Len(callOpts.additionalPaths) :
                      callOpts.additionalPaths[i] \in The(endpoint.additionalPaths)[i]
        /\ Has(endpoint.query) =>
               \A k \in DOMAIN The(endpoint.query) :
                   k \in DOMAIN callOpts.query /\ callOpts.query[k] \in The(endpoint.query)[k]
        /\ Has(endpoint.body) => callOpts.body \in The(endpoint.body)
        /\ Has(endpoint.headers) =>
               \A k \in DOMAIN The(endpoint.headers) :
                   /\ k \in DOMAIN callOpts.headers
                   /\ callOpts.headers[k] \in The(endpoint.headers)[k]
        /\ Has(client.opts.middlewareHeaders) =>
               \A k \in DOMAIN The(client.opts.middlewareHeaders) :
                   /\ k \in DOMAIN callOpts.middlewareHeaders
                   /\ callOpts.middlewareHeaders[k] \in The(client.opts.middlewareHeaders)[k]

\* the caller has passed the values of the call
Called == client.pc # "idle"

\* the call is still building the request, or has built it
Building == client.pc \in {"idle", "url", "body", "headers", "config", "done"}

Answered == client.pc \in {"returned", "threw"}

\* the call returned the failure of a transport: the raw response, no error
\* of the schema, and the schema was never run
TransportFailure ==
    /\ client.pc = "returned"
    /\ transport.result = {[success |-> FALSE, response |-> The(transport.response)]}
    /\ ~Has(transport.data)

\* the kind of outcome a call had
Tag(outcome) ==
    CASE outcome.threw -> "threw"
      [] outcome.value.success -> "success"
      [] "zodError" \in DOMAIN outcome.value -> "schema failure"
      [] OTHER -> "transport failure"

(***************************************************************************)
(* C22.  A call returns a tagged failure carrying the raw response,        *)
(* without running the response schema, exactly when the status the        *)
(* transport reports is outside 200..299; every response with a 2xx status *)
(* is decoded and handed to the response schema.                           *)
(***************************************************************************)
C22_TransportFailureIffNot2xx ==
    Answered =>
        LET status == The(transport.response).status
        IN  /\ TransportFailure <=> (status < 200 \/ status > 299)
            /\ (status >= 200 /\ status <= 299) => Has(transport.data)

(***************************************************************************)
(* C23.  When the data decoded from a success-status response fails the    *)
(* response schema the call does not throw: it returns a tagged failure    *)
(* with the raw response and the error of the schema; when the data passes *)
(* it returns a tagged success with the parsed data and the raw response.  *)
(***************************************************************************)
C23_SchemaVerdictIsReturned ==
    (Answered /\ Has(transport.data)) =>
        LET data == The(transport.data)
            response == The(transport.response)
        IN  /\ ok(response)
            /\ client.pc = "returned"
            /\ transport.result =
                   IF data \notin RegistryClientResponse[client.name]
                   THEN {[success |-> FALSE, zodError |-> ZodIssues, response |-> response]}
                   ELSE {[success |-> TRUE, data |-> data, response |-> response]}

\* both strategies have returned a failure of the schema, and a success
C23_Witness ==
    /\ client.pc = "returned"
    /\ transport.strategy = "axios"
    /\ client.name = "count"
    /\ The(transport.response).status = 204
    /\ The(transport.data) = JsString("Bob")
    /\ The(transport.result).zodError = ZodIssues

(***************************************************************************)
(* C24.  For the same endpoint, options and call input the fetch strategy  *)
(* and the axios strategy are handed the same URL, method, header map and  *)
(* body, and every response status and body has the same tagged outcome    *)
(* under both: success, transport failure or schema failure.               *)
(***************************************************************************)
C24_StrategiesAgree ==
    client.pc = "done" =>
        LET callOptsOutput == [url |-> client.url, body |-> client.body,
                               headers |-> client.headers]
            f == FetchConfig(callOptsOutput)
            a == AxiosConfig(callOptsOutput)
        IN  /\ f.url = a.url
            /\ f.method = a.method
            /\ f.headers = a.headers
            /\ Has(f.body) => Has(a.data) /\ f.body = {StringifyBody(The(a.data))}
            /\ ~Has(f.body) => (~Has(a.data) \/ ~Truthy(The(a.data)))
            /\ \A response \in Responses :
                   /\ Tag(fetchResponded(response)) # "threw"
                   /\ Tag(fetchResponded(response))
                          = Tag(axiosResponded(AxiosResponse(response)))

(***************************************************************************)
(* createZonoEndpointClientSuite: one client for every endpoint, its       *)
(* options the suite's options overwritten by those given for the          *)
(* endpoint.  Options are objects: functions from the keys that are        *)
(* present to their values, and every value is an object itself.           *)
(***************************************************************************)
\* the rest of the model while no HTTP server and no endpoint client is used
Offline ==
    /\ endpoints = [order |-> RegistryClient.order, defs |-> RegistryClient.defs]
    /\ endpointPaths = initPaths(RegistryClient, {})
    /\ conf = [basePath |-> {}, converters |-> RegistryClient.converters,
               middlewareHeaders |-> {}]
    /\ opts = [globalHandlerOpts |-> EmptyObject, specificHandlerOpts |-> EmptyObject,
               middleware |-> {}]
    /\ server = 0
    /\ listening = {}
    /\ apps = [h \in Handles |-> << >>]
    /\ pendingStops = [h \in Handles |-> 0]
    /\ started = 0
    /\ console = {}
    /\ lastCall = NoCall
    /\ overlapped = FALSE
    /\ reqs = [s \in Slots |-> IdleRequest]
    /\ maxConcurrent = 1
    /\ client = NoClient
    /\ transport = NoTransport

\* the objects over some of the keys of fields, a value of fields[k] for k
Partial(fields) ==
    UNION {[keys -> UNION {fields[k] : k \in keys}] : keys \in SUBSET DOMAIN fields}

PartialOf(fields) ==
    {o \in Partial(fields) : \A k \in DOMAIN o : o[k] \in fields[k]}

\* ZonoEndpointClientOptions: baseUrl and the optional keys
BaseUrls == {[href |-> "http://localhost:3000"], [href |-> "http://localhost:4000"]}

SuiteBaseOptions ==
    {o \in PartialOf([baseUrl |-> BaseUrls,
                      middlewareHeaders |-> {[authorization |-> {"middleware-token"},
                                              trace |-> {"on"}]},
                      defaultFetchConfig |-> {[cache |-> "no-store"]}]) :
         "baseUrl" \in DOMAIN o}

\* Partial<ZonoEndpointClientOptions>: what can be given for one endpoint
SuiteOverwrites ==
    {EmptyObject,
     [baseUrl |-> [href |-> "http://localhost:4000"]],
     [middlewareHeaders |-> [authorization |-> {"other-token"}]],
     [baseUrl |-> [href |-> "http://localhost:4000"],
      defaultFetchConfig |-> [cache |-> "reload", mode |-> "cors"]]}

\* overwriteSpecificEndpoints: an overwrite for some of the endpoints
SuiteOverwriteRecords ==
    UNION {[names -> SuiteOverwrites] : names \in SUBSET DOMAIN RegistryClient.defs}

\* ZonoEndpointClientSuiteOptions
SuiteOptions ==
    SuiteBaseOptions
    \cup {Spread(o, [overwriteSpecificEndpoints |-> r]) :
              o \in SuiteBaseOptions, r \in SuiteOverwriteRecords}

\* opts.overwriteSpecificEndpoints?.[key]
Overwrite(options, key) ==
    IF "overwriteSpecificEndpoints" \notin DOMAIN options THEN {}
    ELSE IF key \notin DOMAIN options["overwriteSpecificEndpoints"] THEN {}
    ELSE {options["overwriteSpecificEndpoints"][key]}

\* options of a client in which the suite's value wins
ClientOptionsSuiteWins(options, overwrite) ==
    IF ~Has(overwrite) THEN options ELSE Spread(The(overwrite), options)

\* { ...opts, ...overwrite }: spreading undefined adds nothing
ClientOptions(options, overwrite) ==
    IF ~Has(overwrite) THEN options ELSE Spread(options, The(overwrite))

\* one round of for (const key in endpoints)
CreateClient ==
    /\ suite.pc = "loop"
    /\ LET key == endpoints.order[suite.next]
           overwrite == Overwrite(suite.opts, key)
           created == ClientOptions(suite.opts, overwrite)
       IN  suite' = [suite EXCEPT
                        !.result = [k \in (DOMAIN suite.result) \cup {key} |->
                                       IF k = key THEN created ELSE suite.result[k]],
                        !.next = @ + 1,
                        !.pc = IF suite.next = Len(endpoints.order)
                               THEN "returned" ELSE "loop"]
    /\ UNCHANGED <<serverVars, client, transport, socketVars>>

InitSuite ==
    /\ Offline
    /\ zonoServer = NoZonoServer
    /\ \E options \in SuiteOptions :
         suite = [pc |-> "loop", opts |-> options, next |-> 1, result |-> EmptyObject]
    /\ socketServer = NoSocketServer
    /\ socketClient = NoSocketClient

NextSuite == CreateClient

SpecSuite == InitSuite /\ [][NextSuite]_vars

(***************************************************************************)
(* C25.  In a suite the options of endpoint K's client are the base        *)
(* options with every key present in K's overwrite replaced by the         *)
(* overwrite's value, whole value for whole value; the client of an        *)
(* endpoint without an overwrite has exactly the base options, and an      *)
(* overwrite for K shows in no other endpoint's client.                    *)
(***************************************************************************)
C25_OverwriteIsShallowAndLocal ==
    /\ \A K \in DOMAIN suite.result :
           LET given == /\ "overwriteSpecificEndpoints" \in DOMAIN suite.opts
                        /\ K \in DOMAIN suite.opts["overwriteSpecificEndpoints"]
               overwrite == IF given THEN suite.opts["overwriteSpecificEndpoints"][K]
                            ELSE EmptyObject
               options == suite.result[K]
           IN  /\ DOMAIN options = (DOMAIN suite.opts) \cup (DOMAIN overwrite)
               /\ \A k \in DOMAIN options :
                      options[k] = IF k \in DOMAIN overwrite THEN overwrite[k]
                                   ELSE suite.opts[k]
               /\ ~given => options = suite.opts
    /\ suite.pc = "returned" => DOMAIN suite.result = DOMAIN endpoints.defs

\* a suite whose base options have middleware headers with two keys: the
\* client of thing has them replaced whole, the client of count has another
\* base URL and the client of things has the base options
C25_Witness ==
    /\ suite.pc = "returned"
    /\ {"middlewareHeaders", "overwriteSpecificEndpoints"} \subseteq DOMAIN suite.opts
    /\ "trace" \in DOMAIN suite.opts["middlewareHeaders"]
    /\ suite.opts["baseUrl"] = [href |-> "http://localhost:3000"]
    /\ DOMAIN suite.opts["overwriteSpecificEndpoints"] = {"thing", "count"}
    /\ suite.result["thing"]["middlewareHeaders"] = [authorization |-> {"other-token"}]
    /\ suite.result["thing"]["baseUrl"] = [href |-> "http://localhost:3000"]
    /\ suite.result["count"]["baseUrl"] = [href |-> "http://localhost:4000"]
    /\ suite.result["count"]["middlewareHeaders"] = suite.opts["middlewareHeaders"]
    /\ suite.result["things"] = suite.opts

(***************************************************************************)
(* Sockets: the definition both sides share, and what arrives.             *)
(***************************************************************************)
\* z.object({ content: z.string() }) and the like: key -> accepted values
SocketDefinition ==
    [serverEvents |-> [message |-> [content |-> {"hello"}],
                       notification |-> [text |-> {"pong"}]],
     clientEvents |-> [sendMessage |-> [content |-> {"hello"}],
                       ping |-> [id |-> {"1"}]]]

\* the payloads a peer can put on the wire: "#7" is the number 7
SocketPayloads ==
    {[content |-> "hello"], [content |-> "hello", extra |-> "x"], [content |-> "#7"],
     [id |-> "1"]}

\* the properties every object literal inherits from Object.prototype
ObjectPrototype == {"constructor", "toString"}

\* the event names a peer can put on the wire
ClientEventNames == {"sendMessage", "ping", "shout"} \cup {"constructor"}
ServerEventNames == {"message", "notification", "shout"} \cup {"constructor"}

\* obj[key] of an object literal: its own property, the property it inherits
\* (a function or an object of the runtime, truthy), or undefined
Property(obj, key) ==
    CASE key \in DOMAIN obj -> "own"
      [] key \in ObjectPrototype -> "inherited"
      [] OTHER -> "undefined"

(***************************************************************************)
(* ZonoSocketServer: the onAny listener of a connected socket.             *)
(***************************************************************************)
\* what one run of a listener did: the handlers it invoked, the lines it
\* logged, and whether it threw
Ran(invoked, lines, threw) == [invoked |-> invoked, lines |-> lines, threw |-> threw]

IgnoringInvalid(event) == <<"Ignoring invalid", event, "event data">>

\* socket.onAny((event, data) => { ... })
serverOnAny(event, data) ==
    LET handler == Property(socketServer.handlers, event)
        schema == Property(SocketDefinition.clientEvents, event)
    IN  IF handler = "undefined" THEN Ran(<< >>, {}, FALSE)
        ELSE IF schema = "undefined" THEN Ran(<< >>, {}, FALSE)
        \* schema.safeParse is not a function
        ELSE IF schema = "inherited" THEN Ran(<< >>, {}, TRUE)
        ELSE LET parsed == safeParseObject(SocketDefinition.clientEvents[event], data)
             IN  IF ~parsed.success THEN Ran(<< >>, {IgnoringInvalid(event)}, FALSE)
                 ELSE Ran(<< [handler |-> socketServer.handlers[event],
                              data |-> parsed.data] >>, {}, FALSE)

socketFrame == <<serverVars, client, transport, suite>>

\* a message of a connected client arrives; an exception the listener lets
\* out is the runtime's to deal with: it goes on, or the process ends
ServerReceives ==
    /\ socketServer.pc = "listening"
    /\ Len(socketServer.inbox) < MaxInbound
    /\ \E event \in ClientEventNames, data \in SocketPayloads :
         LET ran == serverOnAny(event, data)
         IN  \E after \in IF ran.threw THEN {"listening", "ended"} ELSE {"listening"} :
               socketServer' =
                   [socketServer EXCEPT
                       !.pc = after,
                       !.inbox = Append(@, [event |-> event, data |-> data]),
                       !.invoked = @ \o ran.invoked,
                       !.console = @ \cup ran.lines,
                       !.uncaught = @ + (IF ran.threw THEN 1 ELSE 0)]
    /\ UNCHANGED <<socketFrame, socketClient>>

\* a server with a handler for every client event, as its options' type asks
InitSocketServer ==
    /\ Offline
    /\ zonoServer = NoZonoServer
    /\ suite = NoSuite
    /\ socketClient = NoSocketClient
    /\ socketServer = [pc |-> "listening",
                       handlers |-> [event \in DOMAIN SocketDefinition.clientEvents |->
                                        <<"handlers", event>>],
                       inbox |-> << >>, invoked |-> << >>, console |-> {},
                       uncaught |-> 0]

NextSocketServer == ServerReceives

SpecSocketServer == InitSocketServer /\ [][NextSocketServer]_vars

(***************************************************************************)
(* C26.  On the socket server the bound handler of an inbound event is     *)
(* invoked, once and with the parsed payload, if and only if the event     *)
(* name is declared in clientEvents and the payload passes its schema; any *)
(* other message invokes no handler and leaves the session and the server  *)
(* able to process later messages.                                         *)
(***************************************************************************)
\* the invocations the messages of an inbox are due
RECURSIVE Due(_)
Due(inbox) ==
    IF inbox = << >> THEN << >>
    ELSE LET m == Head(inbox)
             declared == m.event \in DOMAIN SocketDefinition.clientEvents
             schema == SocketDefinition.clientEvents[m.event]
         IN  (IF declared /\ \A k \in DOMAIN schema :
                                 k \in DOMAIN m.data /\ m.data[k] \in schema[k]
              THEN << [handler |-> <<"handlers", m.event>>,
                       data |-> [k \in DOMAIN schema |-> m.data[k]]] >>
              ELSE << >>) \o Due(Tail(inbox))

C26_HandlerIffDeclaredAndValid ==
    /\ socketServer.invoked = Due(socketServer.inbox)
    /\ socketServer.uncaught = 0
    /\ socketServer.pc = "listening"

(***************************************************************************)
(* ZonoSocketClient.  Every listen() call passes a function of its own,    *)
(* named by the number of the call; crypto.randomUUID() returns a value it *)
(* has not returned before, here the number of the call as well.  The      *)
(* listeners return normally.                                              *)
(***************************************************************************)
\* the messages the server can put on the wire
ServerMessages ==
    {[event |-> "message", data |-> [content |-> "hello", extra |-> "x"]],
     [event |-> "message", data |-> [content |-> "#7"]],
     [event |-> "notification", data |-> [text |-> "pong"]],
     [event |-> "constructor", data |-> [content |-> "hello"]]}

\* what listen() and removeHandler() returned last
NothingReturned == [op |-> "none", id |-> {}, removed |-> FALSE]

\* one invocation of a listener: by message number n, with data
Invocation(listener, kind, message, data, n) ==
    [fn |-> listener.fn, kind |-> kind, event |-> message.event, data |-> data, n |-> n]

\* socket.once(ev, fn): the listeners of the event that stay registered when
\* it is emitted; a mutation keeps them all
RemainingKeepsAll(once, event) == once

Remaining(once, event) == SelectSeq(once, LAMBDA l : l.event # event)

\* the emitter calls the one-shot listeners of the event with what arrived
EmitOnce(once, message, n) ==
    LET due == SelectSeq(once, LAMBDA l : l.event = message.event)
    IN  [i \in 1..Len(due) |-> Invocation(due[i], "once", message, message.data, n)]

\* this.handlers[ev].set(id, fn): a Map keeps its keys in insertion order; a
\* mutation has the new entry replace the others
SetAlone(map, id, fn) == << [id |-> id, fn |-> fn] >>

Set(map, id, fn) ==
    IF \E i \in 1..Len(map) : map[i].id = id
    THEN [i \in 1..Len(map) |-> IF map[i].id = id THEN [id |-> id, fn |-> fn] ELSE map[i]]
    ELSE Append(map, [id |-> id, fn |-> fn])

\* the synchronous part of the onAny listener, up to its await
clientOnAny(event) ==
    LET handlers == Property(socketClient.handlers, event)
        schema == Property(SocketDefinition.serverEvents, event)
    IN  IF handlers = "undefined" THEN "return"
        ELSE IF handlers = "own" /\ Len(socketClient.handlers[event]) = 0 THEN "return"
        ELSE IF schema = "undefined" THEN "return"
        \* schema.safeParseAsync is not a function
        ELSE IF schema = "inherited" THEN "throw"
        ELSE "await"

\* the client once a message has arrived: the onAny listener has run up to
\* its await, then the emitter has called the one-shot listeners
received(message) ==
    LET n == socketClient.inbound + 1
        step == clientOnAny(message.event)
    IN  [socketClient EXCEPT
            !.inbound = n,
            !.pending = IF step = "await"
                        THEN Append(@, [event |-> message.event,
                                        data |-> message.data, n |-> n])
                        ELSE @,
            !.uncaught = @ + (IF step = "throw" THEN 1 ELSE 0),
            !.calls = @ \o EmitOnce(socketClient.once, message, n),
            !.once = Remaining(@, message.event)]

\* a message arrives
ClientReceives ==
    /\ socketClient.pc = "connected"
    /\ socketClient.inbound < MaxInbound
    /\ \E message \in ServerMessages : socketClient' = received(message)
    /\ UNCHANGED <<socketFrame, socketServer>>

\* safeParseAsync has resolved: the rest of the onAny listener
ClientDispatch ==
    /\ socketClient.pc = "connected"
    /\ socketClient.pending # << >>
    /\ LET message == Head(socketClient.pending)
           parsed == safeParseObject(SocketDefinition.serverEvents[message.event],
                                     message.data)
           handlers == socketClient.handlers[message.event]
       IN  socketClient' =
               [socketClient EXCEPT
                   !.pending = Tail(@),
                   !.console = IF parsed.success THEN @
                               ELSE @ \cup {IgnoringInvalid(message.event)},
                   !.calls = IF ~parsed.success THEN @
                             ELSE @ \o [i \in 1..Len(handlers) |->
                                           Invocation(handlers[i], "on", message,
                                                      parsed.data, message.n)]]
    /\ UNCHANGED <<socketFrame, socketServer>>

\* listen(type, ev, fn)
Listen ==
    /\ socketClient.pc = "connected"
    /\ socketClient.listens < MaxListens
    /\ \E type \in {"once", "on"}, ev \in DOMAIN SocketDefinition.serverEvents :
         LET fn == socketClient.listens + 1
             id == fn
             map == IF ev \in DOMAIN socketClient.handlers
                    THEN socketClient.handlers[ev] ELSE << >>
         IN  socketClient' =
                 IF type = "once"
                 THEN [socketClient EXCEPT
                          !.listens = fn,
                          !.once = Append(@, [event |-> ev, fn |-> fn]),
                          !.returned = [op |-> "listen", id |-> {}, removed |-> FALSE]]
                 ELSE [socketClient EXCEPT
                          !.listens = fn,
                          !.handlers = (ev :> Set(map, id, fn)) @@ @,
                          !.returned = [op |-> "listen", id |-> {id}, removed |-> FALSE]]
    /\ UNCHANGED <<socketFrame, socketServer>>

\* a delete that reports the key and keeps it
DeleteKeeps(map, id) ==
    [deleted |-> \E i \in 1..Len(map) : map[i].id = id, map |-> map]

\* handlers.delete(id): whether the Map had the key, and the Map without it
Delete(map, id) ==
    [deleted |-> \E i \in 1..Len(map) : map[i].id = id,
     map |-> SelectSeq(map, LAMBDA entry : entry.id # id)]

\* a removal that looks for the identifier under every event
removeHandlerOfAnyEvent(handlers, event, id) ==
    [removed |-> \E ev \in DOMAIN handlers : Delete(handlers[ev], id).deleted,
     handlers |-> [ev \in DOMAIN handlers |-> Delete(handlers[ev], id).map]]

\* removeHandler(event, id) when this.handlers is handlers: what it returns
\* and this.handlers after it
removeHandler(handlers, event, id) ==
    IF event \notin DOMAIN handlers
    THEN [removed |-> FALSE, handlers |-> handlers]
    ELSE LET deleted == Delete(handlers[event], id)
         IN  [removed |-> deleted.deleted,
              handlers |-> [handlers EXCEPT ![event] = deleted.map]]

\* the caller passes an identifier listen() returned, or a string of its own (0)
RemoveHandler ==
    /\ socketClient.pc = "connected"
    /\ \E event \in DOMAIN SocketDefinition.serverEvents, id \in 0..socketClient.listens :
         LET done == removeHandler(socketClient.handlers, event, id)
         IN  socketClient' =
                 [socketClient EXCEPT
                     !.handlers = done.handlers,
                     !.returned = [op |-> "removeHandler", id |-> {},
                                   removed |-> done.removed]]
    /\ UNCHANGED <<socketFrame, socketServer>>

InitSocketClient ==
    /\ Offline
    /\ zonoServer = NoZonoServer
    /\ suite = NoSuite
    /\ socketServer = NoSocketServer
    /\ socketClient = [pc |-> "connected", handlers |-> EmptyObject, once |-> << >>,
                       listens |-> 0, inbound |-> 0, pending |-> << >>,
                       calls |-> << >>, console |-> {}, uncaught |-> 0,
                       returned |-> NothingReturned]

NextSocketClient ==
    \/ Listen
    \/ RemoveHandler
    \/ ClientReceives
    \/ ClientDispatch

SpecSocketClient == InitSocketClient /\ [][NextSocketClient]_vars

(***************************************************************************)
(* Vocabulary of the socket client properties.                             *)
(***************************************************************************)
\* the payload passes the schema serverEvents declares for the event
PassesServerSchema(event, data) ==
    /\ event \in DOMAIN SocketDefinition.serverEvents
    /\ \A k \in DOMAIN SocketDefinition.serverEvents[event] :
           k \in DOMAIN data /\ data[k] \in SocketDefinition.serverEvents[event][k]

\* how often the listener fn has been invoked, and how often for message n
Invoked(fn) == Len(SelectSeq(socketClient.calls, LAMBDA c : c.fn = fn))
InvokedFor(calls, fn, n) == Len(SelectSeq(calls, LAMBDA c : c.fn = fn /\ c.n = n))

\* the listener was registered with listen("once", ...)
IsOnce(fn) ==
    \/ \E j \in 1..Len(socketClient.once) : socketClient.once[j].fn = fn
    \/ \E i \in 1..Len(socketClient.calls) :
          socketClient.calls[i].fn = fn /\ socketClient.calls[i].kind = "once"

\* the identifiers registered under an event
IdsOf(handlers, event) ==
    IF event \in DOMAIN handlers
    THEN {handlers[event][i].id : i \in 1..Len(handlers[event])}
    ELSE {}

(***************************************************************************)
(* C27.  On the socket client no listener registered through listen(),     *)
(* one-shot or persistent, is ever invoked with a payload that fails the   *)
(* serverEvents schema of its event, and none is invoked for an event name *)
(* that serverEvents does not declare.                                     *)
(***************************************************************************)
C27_ListenersGetValidPayloads ==
    \A i \in 1..Len(socketClient.calls) :
        PassesServerSchema(socketClient.calls[i].event, socketClient.calls[i].data)

(***************************************************************************)
(* C28.  A listener registered with listen("once", ev, fn) is invoked at   *)
(* most once over any sequence of inbound events: it is removed after its  *)
(* first invocation, and the registration returns no identifier.           *)
(***************************************************************************)
C28_OnceIsInvokedAtMostOnce ==
    /\ \A i \in 1..Len(socketClient.calls) :
           LET c == socketClient.calls[i]
           IN  c.kind = "once" =>
                   /\ Invoked(c.fn) = 1
                   /\ \A j \in 1..Len(socketClient.once) : socketClient.once[j].fn # c.fn
    /\ \A j \in 1..Len(socketClient.once) : Invoked(socketClient.once[j].fn) = 0
    /\ (socketClient.returned.op = "listen" /\ IsOnce(socketClient.listens))
           => socketClient.returned.id = {}

\* a one-shot and a persistent listener were registered for the same event
\* and two valid events of it have arrived: the persistent listener was
\* invoked for both, the one-shot listener for the first only
C28_Witness ==
    /\ socketClient.inbound = 2
    /\ socketClient.pending = << >>
    /\ socketClient.once = << >>
    /\ Len(socketClient.calls) = 3
    /\ \E fn \in 1..socketClient.listens :
          /\ IsOnce(fn)
          /\ Invoked(fn) = 1
          /\ InvokedFor(socketClient.calls, fn, 1) = 1
    /\ \E fn \in 1..socketClient.listens :
          /\ ~IsOnce(fn)
          /\ InvokedFor(socketClient.calls, fn, 1) = 1
          /\ InvokedFor(socketClient.calls, fn, 2) = 1
    /\ \A i \in 1..3 : socketClient.calls[i].event = "message"

\* no identifier is registered twice, under one event or under two
DistinctIds(handlers) ==
    /\ \A ev \in DOMAIN handlers :
           \A i, j \in 1..Len(handlers[ev]) :
               handlers[ev][i].id = handlers[ev][j].id => i = j
    /\ \A ev, other \in DOMAIN handlers :
           ev # other => IdsOf(handlers, ev) \cap IdsOf(handlers, other) = {}

C30_RemoveHandlerIsExact ==
    \A event \in DOMAIN SocketDefinition.serverEvents, id \in 0..socketClient.listens :
        LET handlers == socketClient.handlers
            done == removeHandler(handlers, event, id)
            registered == id \in IdsOf(handlers, event)
        IN  /\ done.removed = registered
            /\ DOMAIN done.handlers = DOMAIN handlers
            /\ registered =>
                   /\ done.handlers[event]
                          = SelectSeq(handlers[event], LAMBDA entry : entry.id # id)
                   /\ Len(done.handlers[event]) = Len(handlers[event]) - 1
                   /\ \A e \in DOMAIN handlers : e # event => done.handlers[e] = handlers[e]
            /\ ~registered => done.handlers = handlers
            /\ ~removeHandler(done.handlers, event, id).removed

\* removeHandler has returned true for one of the two listeners of an
\* event; the other one is still registered
C30_Witness ==
    /\ socketClient.returned.op = "removeHandler"
    /\ socketClient.returned.removed
    /\ DOMAIN socketClient.handlers = {"message"}
    /\ Len(socketClient.handlers["message"]) = 1
    /\ socketClient.listens = 2

(***************************************************************************)
(* ZonoSocketClient, the for-of loop of the onAny listener one iteration   *)
(* at a time.  The loop runs over the Map itself, which listen() and       *)
(* removeHandler() change; a listener is a function of the application and *)
(* may call either of them before it returns.  While the loop runs nothing *)
(* else does: the listeners are called synchronously.                      *)
(***************************************************************************)
\* the messages of declared events
DeclaredMessages == {m \in ServerMessages : m.event \in DOMAIN SocketDefinition.serverEvents}

\* no loop has run yet
NoLoop == [n |-> 0, event |-> "none", registered |-> << >>, visited |-> << >>]

\* for (const [_, handler] of handlers): the entries the iterator of a Map
\* has yet to visit, those set during the iteration included, those deleted
\* during it excluded
Unvisited(map, visited) ==
    SelectSeq(map, LAMBDA entry : \A i \in 1..Len(visited) : visited[i].id # entry.id)

\* this.handlers after listen("on", ev, fn) has set fn under id
listenOn(handlers, ev, id, fn) ==
    LET map == IF ev \in DOMAIN handlers THEN handlers[ev] ELSE << >>
    IN  (ev :> Set(map, id, fn)) @@ handlers

\* the application calls listen("on", ev, fn) with a function of its own
Registers ==
    /\ socketClient.pc = "connected"
    /\ socketClient.listens < MaxListens
    /\ \E ev \in DOMAIN SocketDefinition.serverEvents :
         LET id == socketClient.listens + 1
         IN  socketClient' =
                 [socketClient EXCEPT
                     !.listens = id,
                     !.handlers = listenOn(@, ev, id, id)]
    /\ UNCHANGED <<socketFrame, socketServer>>

\* the application calls removeHandler(event, id)
Removes ==
    /\ socketClient.pc = "connected"
    /\ \E event \in DOMAIN SocketDefinition.serverEvents, id \in 1..socketClient.listens :
         LET done == removeHandler(socketClient.handlers, event, id)
         IN  socketClient' =
                 [socketClient EXCEPT
                     !.handlers = done.handlers,
                     !.removed = IF done.removed THEN @ \cup {id} ELSE @]
    /\ UNCHANGED <<socketFrame, socketServer>>

\* a message arrives: the onAny listener runs up to its await; registered
\* records the listeners of the event at this moment
Arrives ==
    /\ socketClient.pc = "connected"
    /\ socketClient.inbound < MaxInbound
    /\ \E message \in DeclaredMessages :
         LET n == socketClient.inbound + 1
         IN  socketClient' =
                 [socketClient EXCEPT
                     !.inbound = n,
                     !.pending =
                         IF clientOnAny(message.event) = "await"
                         THEN Append(@, [event |-> message.event, data |-> message.data,
                                         n |-> n,
                                         registered |-> socketClient.handlers[message.event]])
                         ELSE @]
    /\ UNCHANGED <<socketFrame, socketServer>>

\* safeParseAsync has resolved: the listener logs and returns, or enters its loop
Resolves ==
    /\ socketClient.pc = "connected"
    /\ socketClient.pending # << >>
    /\ LET message == Head(socketClient.pending)
           parsed == safeParseObject(SocketDefinition.serverEvents[message.event],
                                     message.data)
       IN  socketClient' =
               IF ~parsed.success
               THEN [socketClient EXCEPT
                        !.pending = Tail(@),
                        !.console = @ \cup {IgnoringInvalid(message.event)}]
               ELSE [socketClient EXCEPT
                        !.pc = "dispatching",
                        !.pending = Tail(@),
                        !.loop = [n |-> message.n, event |-> message.event,
                                  registered |-> message.registered,
                                  visited |-> << >>]]
    /\ UNCHANGED <<socketFrame, socketServer>>

\* the entry the loop calls next, if the iterator has one
NextEntry ==
    LET rest == Unvisited(socketClient.handlers[socketClient.loop.event],
                          socketClient.loop.visited)
    IN  IF rest = << >> THEN {} ELSE {Head(rest)}

\* the iterator is done: the onAny listener returns
LoopEnds ==
    /\ socketClient.pc = "dispatching"
    /\ NextEntry = {}
    /\ socketClient' = [socketClient EXCEPT !.pc = "connected"]
    /\ UNCHANGED <<socketFrame, socketServer>>

\* handler(parsed.data), and the handler returns
ListenerReturns ==
    /\ socketClient.pc = "dispatching"
    /\ \E entry \in NextEntry :
         socketClient' = [socketClient EXCEPT !.loop.visited = Append(@, entry)]
    /\ UNCHANGED <<socketFrame, socketServer>>

\* handler(parsed.data), and the handler calls listen("on", ev, fn) for the
\* event it was called for, with itself or with a new function
ListenerListens ==
    /\ socketClient.pc = "dispatching"
    /\ socketClient.listens < MaxListens
    /\ \E entry \in NextEntry :
         LET id == socketClient.listens + 1
         IN  \E fn \in {entry.fn, id} :
               socketClient' =
                   [socketClient EXCEPT
                       !.loop.visited = Append(@, entry),
                       !.listens = id,
                       !.handlers = listenOn(@, socketClient.loop.event, id, fn)]
    /\ UNCHANGED <<socketFrame, socketServer>>

\* handler(parsed.data), and the handler calls removeHandler(ev, id) for the
\* event it was called for
ListenerRemoves ==
    /\ socketClient.pc = "dispatching"
    /\ \E entry \in NextEntry, id \in 1..socketClient.listens :
         LET done == removeHandler(socketClient.handlers, socketClient.loop.event, id)
         IN  socketClient' =
                 [socketClient EXCEPT
                     !.loop.visited = Append(@, entry),
                     !.handlers = done.handlers,
                     !.removed = IF done.removed THEN @ \cup {id} ELSE @]
    /\ UNCHANGED <<socketFrame, socketServer>>

InitSocketDispatch ==
    /\ Offline
    /\ zonoServer = NoZonoServer
    /\ suite = NoSuite
    /\ socketServer = NoSocketServer
    /\ socketClient = [pc |-> "connected", handlers |-> EmptyObject, listens |-> 0,
                       removed |-> {}, inbound |-> 0, pending |-> << >>,
                       loop |-> NoLoop, console |-> {}]

NextSocketDispatch ==
    \/ Registers
    \/ Removes
    \/ Arrives
    \/ Resolves
    \/ LoopEnds
    \/ ListenerReturns
    \/ ListenerListens
    \/ ListenerRemoves

SpecSocketDispatch == InitSocketDispatch /\ [][NextSocketDispatch]_vars

(***************************************************************************)
(* C31.  After removeHandler(event, id) has returned true, the removed     *)
(* persistent listener is not invoked for any event of that type delivered *)
(* afterwards, including an event that had already arrived but whose       *)
(* payload validation had not yet completed when the removal happened.     *)
(***************************************************************************)
\* the identifiers of the entries in a sequence of Map entries
Ids(entries) == {entries[i].id : i \in 1..Len(entries)}

C31_RemovedListenerIsNotInvoked ==
    [][\A id \in socketClient.removed :
           /\ id \in Ids(socketClient'.loop.visited) =>
                  /\ socketClient'.loop.n = socketClient.loop.n
                  /\ id \in Ids(socketClient.loop.visited)
           /\ \A ev \in DOMAIN socketClient'.handlers :
                  id \notin Ids(socketClient'.handlers[ev])
      ]_vars

\* the only listener of an event was removed while the validation of an
\* event of it was pending, and the loop for that event has ended without
\* invoking anything
C31_Witness ==
    /\ socketClient.pc = "connected"
    /\ socketClient.loop.n = 1
    /\ Ids(socketClient.loop.registered) = {1}
    /\ socketClient.removed = {1}
    /\ socketClient.loop.visited = << >>
    /\ socketClient.listens = 1

(***************************************************************************)
(* C36.  On the socket client, a persistent listener is invoked for an     *)
(* inbound event only if it was registered at the moment that event        *)
(* arrived; a listener added while the event's asynchronous payload        *)
(* validation is still pending is not invoked for that event.              *)
(***************************************************************************)
C36_InvokedOnlyIfRegisteredAtArrival ==
    Ids(socketClient.loop.visited) \subseteq Ids(socketClient.loop.registered)

(***************************************************************************)
(* C37.  Dispatching one valid inbound event to the persistent listeners   *)
(* of the socket client terminates and invokes each listener at most once, *)
(* also when a listener calls listen() or removeHandler() for the same     *)
(* event while the dispatch is in progress.                                *)
(***************************************************************************)
C37_DispatchInvokesEachListenerOnce ==
    LET visited == socketClient.loop.visited
    IN  \A i, j \in 1..Len(visited) : visited[i].fn = visited[j].fn => i = j

(***************************************************************************)
(* A ZonoSocketServer and one connected ZonoSocketClient.  The handlers of *)
(* the server answer a client event with one server event, as those of     *)
(* the tests do; the connection delivers what is emitted, in order.        *)
(***************************************************************************)
\* what the application passes to client.emit(ev, data): nothing checks it
ClientEmissions ==
    {[event |-> "sendMessage", data |-> [content |-> "hello"]],
     [event |-> "sendMessage", data |-> [content |-> "#7"]],
     [event |-> "ping", data |-> [id |-> "1"]]}

\* the server events a handler of the application may emit for a client
\* event: an object that has the properties of the schema's input type,
\* with or without one more
handlerEmits(event, data) ==
    IF event = "sendMessage"
    THEN {[event |-> "message", data |-> [content |-> data.content]],
          [event |-> "message", data |-> [content |-> data.content, extra |-> "x"]]}
    ELSE {[event |-> "notification", data |-> [text |-> "pong"]]}

\* an emit that reaches the client twice
ioEmitTwice(down, message) == down \o <<message, message>>

\* this.io.emit(event, data): to every connected client, here the one
ioEmit(down, message) == Append(down, message)

\* the listeners are registered before anything is emitted
EchoListen ==
    /\ socketClient.sent = << >>
    /\ Listen

\* client.emit(ev, data)
ClientEmits ==
    /\ socketClient.pc = "connected"
    /\ Len(socketClient.sent) < MaxInbound
    /\ \E message \in ClientEmissions :
         /\ socketClient' = [socketClient EXCEPT !.sent = Append(@, message)]
         /\ socketServer' = [socketServer EXCEPT !.up = Append(@, message)]
    /\ UNCHANGED socketFrame

\* the onAny listener of the server runs for the next message of the client;
\* the handler it calls emits its server event
ServerGets ==
    /\ socketServer.pc = "listening"
    /\ socketServer.up # << >>
    /\ LET message == Head(socketServer.up)
           ran == serverOnAny(message.event, message.data)
       IN  IF ran.invoked = << >>
           THEN socketServer' =
                    [socketServer EXCEPT
                        !.up = Tail(@),
                        !.inbox = Append(@, message),
                        !.console = @ \cup ran.lines]
           ELSE \E emitted \in handlerEmits(message.event, ran.invoked[1].data) :
                    socketServer' =
                        [socketServer EXCEPT
                            !.up = Tail(@),
                            !.inbox = Append(@, message),
                            !.invoked = @ \o ran.invoked,
                            !.emits = Append(@, emitted),
                            !.down = ioEmit(@, emitted)]
    /\ UNCHANGED <<socketFrame, socketClient>>

\* the next message of the server arrives at the client
ClientGets ==
    /\ socketClient.pc = "connected"
    /\ socketServer.down # << >>
    /\ socketClient' = received(Head(socketServer.down))
    /\ socketServer' = [socketServer EXCEPT !.down = Tail(@)]
    /\ UNCHANGED socketFrame

InitSocketEcho ==
    /\ Offline
    /\ zonoServer = NoZonoServer
    /\ suite = NoSuite
    /\ socketServer = [pc |-> "listening",
                       handlers |-> [event \in DOMAIN SocketDefinition.clientEvents |->
                                        <<"handlers", event>>],
                       inbox |-> << >>, invoked |-> << >>, console |-> {},
                       uncaught |-> 0, up |-> << >>, down |-> << >>, emits |-> << >>]
    /\ socketClient = [pc |-> "connected", handlers |-> EmptyObject, once |-> << >>,
                       listens |-> 0, inbound |-> 0, pending |-> << >>,
                       calls |-> << >>, console |-> {}, uncaught |-> 0,
                       returned |-> NothingReturned, sent |-> << >>]

NextSocketEcho ==
    \/ EchoListen
    \/ ClientEmits
    \/ ServerGets
    \/ ClientGets
    \/ ClientDispatch

SpecSocketEcho == InitSocketEcho /\ [][NextSocketEcho]_vars

(***************************************************************************)
(* C32.  With a socket server whose handler for a client event emits one   *)
(* server event, one valid client emit results in exactly one delivery of  *)
(* that server event to the emitting client's listener for it (never zero, *)
(* never duplicated), carrying the payload the handler emitted.            *)
(***************************************************************************)
\* nothing is on its way and no validation is pending
Quiet ==
    /\ socketServer.up = << >>
    /\ socketServer.down = << >>
    /\ socketClient.pending = << >>

\* the client emits that pass the clientEvents schema of their event
ValidSent ==
    SelectSeq(socketClient.sent,
              LAMBDA m : safeParseObject(SocketDefinition.clientEvents[m.event],
                                         m.data).success)

\* the server events of a name the handlers have emitted, in order
Emitted(ev) == SelectSeq(socketServer.emits, LAMBDA m : m.event = ev)

\* the invocations of a listener, in order
CallsOf(fn) == SelectSeq(socketClient.calls, LAMBDA c : c.fn = fn)

\* every valid client emit has the handler emit once, and every server
\* event reaches each listener of its name once: a persistent listener gets
\* Payload(ev, emitted data), a one-shot listener the first event as emitted
ExactlyOneDelivery(Payload(_, _)) ==
    /\ Len(socketServer.emits) <= Len(ValidSent)
    /\ Quiet => Len(socketServer.emits) = Len(ValidSent)
    /\ \A ev \in DOMAIN socketClient.handlers :
           \A k \in 1..Len(socketClient.handlers[ev]) :
               LET got == CallsOf(socketClient.handlers[ev][k].fn)
                   due == Emitted(ev)
               IN  /\ Len(got) <= Len(due)
                   /\ Quiet => Len(got) = Len(due)
                   /\ \A i \in 1..Len(got) : got[i].data = Payload(ev, due[i].data)
    /\ \A j \in 1..Len(socketClient.once) :
           /\ CallsOf(socketClient.once[j].fn) = << >>
           /\ Quiet => Emitted(socketClient.once[j].event) = << >>
    /\ \A i \in 1..Len(socketClient.calls) :
           LET c == socketClient.calls[i]
           IN  c.kind = "once" =>
                   /\ Len(CallsOf(c.fn)) = 1
                   /\ c.data = Emitted(c.event)[1].data

\* the payload as the handler emitted it
AsEmitted(ev, data) == data

\* the payload as the serverEvents schema of the event parses it
AsParsed(ev, data) == safeParseObject(SocketDefinition.serverEvents[ev], data).data

SentTogether(ctx) ==
    /\ \A i \in 1..Len(ctx.path) : ctx.path[i] # "bob"
    /\ \A k \in DOMAIN ctx.headers : ctx.headers[k] # "x"

ArriveTogether ==
    /\ Arrive
    /\ \A slot \in Slots : InFlight(reqs'[slot]) => SentTogether(reqs'[slot].ctx)

\* the server of the people registry, without middleware; the clients keep
\* two requests in flight
InitConcurrent ==
    /\ Constructed
    /\ endpoints.order = RegistryPeople.order
    /\ opts.globalHandlerOpts = EmptyObject
    /\ opts.specificHandlerOpts = EmptyObject
    /\ opts.middleware = {}
    /\ maxConcurrent = 2
    /\ client = NoClient
    /\ transport = NoTransport
    /\ suite = NoSuite
    /\ socketServer = NoSocketServer
    /\ socketClient = NoSocketClient

NextConcurrent ==
    \/ Start
    \/ ArriveTogether
    \/ \E slot \in Slots : ParsePath(slot)
    \/ \E slot \in Slots : ParseBody(slot)
    \/ \E slot \in Slots : ParseQuery(slot)
    \/ \E slot \in Slots : ParseHeaders(slot)
    \/ \E slot \in Slots : InvokeHandler(slot)
    \/ \E slot \in Slots : HandlerReturns(slot)
    \/ \E slot \in Slots : HandlerThrows(slot)

SpecConcurrent == InitConcurrent /\ [][NextConcurrent]_vars

(***************************************************************************)
(* C33.  Requests handled concurrently do not interfere: for any           *)
(* interleaving of the dispatch steps of several in-flight requests        *)
(* (interleaved at their await points), each request receives the same     *)
(* response it would receive if dispatched alone, and an exception in one  *)
(* request's handler changes no other request's response.                  *)
(***************************************************************************)
\* a request that is answered has the response of the endpoint handler run
\* alone on it
AnsweredAsAlone ==
    \A slot \in Slots :
        LET r == reqs[slot]
        IN  (r.pc = "done" /\ Dispatched(r)) =>
                r.resp = <<createEndpointHandler(r.name, r.ctx, r.result)>>

\* a step of one request leaves the others as they are
OneRequestAtATime ==
    \A slot, other \in Slots :
        (slot # other /\ reqs'[slot] # reqs[slot]) => reqs'[other] = reqs[other]

C33_ConcurrentRequestsDoNotInterfere ==
    /\ []AnsweredAsAlone
    /\ [][OneRequestAtATime]_vars

\* two requests were in flight together: the handler of one threw and it
\* was answered 500, the other was answered with its handler's result
C33_Witness ==
    /\ reqs[1].pc = "done"
    /\ HandlerInvoked(reqs[1])
    /\ "catch" \in Range(reqs[1].log)
    /\ reqs[1].resp = <<GenericError>>
    /\ reqs[2].pc = "done"
    /\ HandlerInvoked(reqs[2])
    /\ reqs[2].result # {}
    /\ reqs[2].resp[1].status = 201

(***************************************************************************)
(* A server whose endpoints declare a query and headers, one with          *)
(* converters, one without, and one that declares neither and has a        *)
(* converter configured all the same.                                      *)
(***************************************************************************)
\* z.object({ date: z.array(z.string()) }) and z.object({ numerical: z.string() })
zRawQuery == [date |-> {<<"2020">>}]
zRawHeaders == [numerical |-> {"7"}]

RegistryConverters ==
    [order |-> <<"converted", "raw", "bare">>,
     defs |-> [converted |-> Endpoint("post", <<"/", "converted">>, NoSchema,
                                      NoSchema, {zQuery}, {zHeaders}),
               raw |-> Endpoint("get", <<"/", "raw">>, NoSchema,
                                NoSchema, {zRawQuery}, {zRawHeaders}),
               bare |-> Endpoint("get", <<"/", "bare">>, NoSchema,
                                 NoSchema, NoSchema, NoSchema)],
     basePath |-> {},
     converters |-> [converted |-> [query |-> "queryDate", headers |-> "headerNumber"],
                     bare |-> [query |-> "queryDate", headers |-> "headerNumber"]]]

InitConverters ==
    /\ ConstructedFrom({RegistryConverters})
    /\ maxConcurrent = 1
    /\ client = NoClient
    /\ transport = NoTransport
    /\ suite = NoSuite
    /\ socketServer = NoSocketServer
    /\ socketClient = NoSocketClient

SpecConverters == InitConverters /\ [][Next]_vars

(***************************************************************************)
(* C34.  For the query and headers channels, the value given to the schema *)
(* is converter(raw wire value) when a converter is configured for that    *)
(* endpoint and channel and the raw wire value otherwise; the converter is *)
(* invoked at most once per request per channel and only for a channel the *)
(* endpoint declares.                                                      *)
(***************************************************************************)
\* what the schema of channel c is to be given for the request
Given(r, c) ==
    LET converters == getConverters(r.name)
    IN  IF c \in DOMAIN converters
        THEN ApplyConverter(converters[c], r.ctx[c])
        ELSE [threw |-> FALSE, value |-> r.ctx[c]]

\* the stages that follow the one of channel c
After(c) == IF c = "query" THEN {"headers", "call", "await"} ELSE {"call", "await"}

\* the request has been through the stage of channel c
Passed(r, c) ==
    \/ r.pc \in After(c)
    \/ r.pc = "done" /\ r.at \in After(c) \cup {StageOf(c)}

C34_ConverterFeedsSchema ==
    \A slot \in Slots, c \in {"query", "headers"} :
        LET r == reqs[slot]
            stopped == r.pc = "done" /\ r.at = StageOf(c)
        IN  Passed(r, c) =>
              /\ Count(r.log, c) <= 1
              /\ IF ~Has(endpoints.defs[r.name][c])
                 THEN /\ ~stopped
                      /\ c \notin Range(r.log)
                      /\ r.input[c] = {}
                 ELSE LET given == Given(r, c)
                          parsed == safeParseObject(The(endpoints.defs[r.name][c]),
                                                    given.value)
                      IN  IF given.threw
                          THEN stopped /\ c \notin Range(r.log) /\ r.resp[1].status = 500
                          ELSE /\ Count(r.log, c) = 1
                               /\ parsed.success =>
                                      ~stopped /\ r.input[c] = {parsed.data}
                               /\ ~parsed.success =>
                                      stopped /\ r.resp[1].status = 400 /\ r.input[c] = {}

\* the handler of an endpoint with a query converter was given the converted
\* query, which is not the one on the wire
C34_Witness ==
    \E slot \in Slots :
        LET r == reqs[slot]
        IN  /\ r.pc = "done"
            /\ r.name = "converted"
            /\ HandlerInvoked(r)
            /\ r.input["query"] = {[date |-> <<"@2020">>]}
            /\ r.ctx.query = [date |-> <<"2020">>]

(***************************************************************************)
(* C35.  Under every interleaving of start() and possibly overlapping      *)
(* asynchronous stop() calls, the stored server handle is non-null exactly *)
(* when a listener created by start() is still running: a stop() that      *)
(* completes late never clears the handle of a listener that was started   *)
(* after that stop() began.                                                *)
(***************************************************************************)
\* a running listener is the one whose handle is stored, and a stored handle
\* is that of a running listener or of one a stop() is closing
C35_HandleFollowsListener ==
    /\ listening # {} => (server # 0 /\ listening = {server})
    /\ (server # 0 /\ server \notin listening) => pendingStops[server] > 0

(***************************************************************************)
(* ZonoServer of classes/server.ts.  Its start() keeps the routes it has   *)
(* registered in a field of the server, coveredPaths; serve() throws when  *)
(* the port is taken, by a listener of this server or by another process.  *)
(***************************************************************************)
\* getCoveredPath(method, path): ":name" parts become "[name]"
getCoveredPath(method, path) ==
    <<method, " ">> \o [i \in 1..Len(path) |->
                           CASE path[i] = ":0" -> "[0]"
                             [] path[i] = ":id" -> "[id]"
                             [] OTHER -> path[i]]

\* the for loop of start() from endpoint i on: whether it threw, and
\* this.coveredPaths when it ended
RECURSIVE CoverFrom(_, _, _, _)
CoverFrom(eps, basePath, i, coveredPaths) ==
    IF i > Len(eps.order) THEN [threw |-> FALSE, coveredPaths |-> coveredPaths]
    ELSE LET endpoint == eps.defs[eps.order[i]]
             path == (IF Has(basePath) THEN The(basePath) ELSE << >>) \o endpoint.path
             coveredPath == getCoveredPath(endpoint.method, path)
         IN  IF coveredPath \in coveredPaths
             THEN [threw |-> TRUE, coveredPaths |-> coveredPaths]
             ELSE CoverFrom(eps, basePath, i + 1, coveredPaths \cup {coveredPath})

\* the registries a ZonoServer is constructed with
ZonoRegistries == {RegistryPeople, RegistryDuplicate, RegistryDerived, RegistryConverters}

\* what the methods of the ZonoServer never write
zonoFrame == <<endpoints, endpointPaths, conf, opts, maxConcurrent, lifecycleVars,
               reqs, console, client, transport, suite, socketVars>>

\* start()
ZonoStart ==
    /\ zonoServer.pc = "constructed"
    /\ IF zonoServer.server # 0
       THEN zonoServer' = [zonoServer EXCEPT !.lastCall = "Server already started"]
       ELSE LET covered == CoverFrom(zonoServer.endpoints, zonoServer.basePath, 1,
                                     zonoServer.coveredPaths)
            IN  IF covered.threw
                THEN zonoServer' = [zonoServer EXCEPT
                                       !.coveredPaths = covered.coveredPaths,
                                       !.lastCall = "is already covered"]
                ELSE \/ zonoServer' = [zonoServer EXCEPT
                                          !.coveredPaths = covered.coveredPaths,
                                          !.lastCall = "serve failed"]
                     \/ /\ zonoServer.listening = {}
                        /\ zonoServer.started < MaxStarts
                        /\ zonoServer' = [zonoServer EXCEPT
                                             !.coveredPaths = covered.coveredPaths,
                                             !.server = zonoServer.started + 1,
                                             !.started = @ + 1,
                                             !.listening = {zonoServer.started + 1},
                                             !.lastCall = "ok"]
    /\ UNCHANGED zonoFrame

\* stop() up to its await
ZonoStopBegin ==
    /\ zonoServer.pc = "constructed"
    /\ IF zonoServer.server = 0
       THEN zonoServer' = [zonoServer EXCEPT !.lastCall = "returned"]
       ELSE /\ zonoServer.pendingStops < MaxPendingStops
            /\ zonoServer' = [zonoServer EXCEPT
                                 !.listening = @ \ {zonoServer.server},
                                 !.pendingStops = @ + 1,
                                 !.lastCall = "awaiting"]
    /\ UNCHANGED zonoFrame

\* stop() after its await: this.coveredPaths.clear(); this._server = null
ZonoStopComplete ==
    /\ zonoServer.pc = "constructed"
    /\ zonoServer.pendingStops > 0
    /\ zonoServer' = [zonoServer EXCEPT
                         !.pendingStops = @ - 1,
                         !.coveredPaths = {},
                         !.server = 0,
                         !.lastCall = "stopped"]
    /\ UNCHANGED zonoFrame

InitZonoServer ==
    /\ Offline
    /\ suite = NoSuite
    /\ socketServer = NoSocketServer
    /\ socketClient = NoSocketClient
    /\ \E registry \in ZonoRegistries :
         zonoServer = [pc |-> "constructed",
                       endpoints |-> [order |-> registry.order, defs |-> registry.defs],
                       basePath |-> registry.basePath,
                       server |-> 0, coveredPaths |-> {}, listening |-> {},
                       started |-> 0, pendingStops |-> 0, lastCall |-> "none"]

NextZonoServer ==
    \/ ZonoStart
    \/ ZonoStopBegin
    \/ ZonoStopComplete

SpecZonoServer == InitZonoServer /\ [][NextZonoServer]_vars

(***************************************************************************)
(* C38.  In ZonoServer (classes/server.ts), start() reports a route        *)
(* collision only when two endpoints of the registry really share a        *)
(* (method, route) pair: the set of covered routes is empty whenever the   *)
(* server is stopped, so a start() that failed after recording routes      *)
(* never makes a later start() report a collision.                         *)
(***************************************************************************)
\* two endpoints of the registry of the ZonoServer have the same method and route
ZonoRouteCollision ==
    LET eps == zonoServer.endpoints
    IN  \E i, j \in 1..Len(eps.order) :
            /\ i # j
            /\ eps.defs[eps.order[i]].method = eps.defs[eps.order[j]].method
            /\ eps.defs[eps.order[i]].path = eps.defs[eps.order[j]].path

C38_CollisionOnlyWhenReal ==
    /\ zonoServer.server = 0 => zonoServer.coveredPaths = {}
    /\ zonoServer.lastCall = "is already covered" => ZonoRouteCollision

====
